---- MODULE Spec2Model ----
(***************************************************************************)
(* State-machine model of vartui: the session state machine (App), the     *)
(* key dispatcher (handle_key), the terminal loop (run_app) and the stdio  *)
(* automation server (mcp.rs).                                             *)
(*                                                                         *)
(* Text is a sequence of one-character strings.  An Option is a sequence   *)
(* of length 0 (None) or 1 (Some).  List indices are 0-based as in the     *)
(* source; TLA+ sequences are 1-based, so days[idx + 1] is days[idx].      *)
(***************************************************************************)
EXTENDS Integers, Sequences, FiniteSets, TLC

\* ------------------------------------------------------------------ bounds
\* Calendar dates of the model are 1..MaxDate (one month, day 1 a Monday).
MaxDate == 3
\* Day-range fetches one session may issue after the initial one.
MaxFetches == 1
\* Sessions one server run may create.
MaxSessions == 2
\* Characters a text field of a form may hold; the range buffer may hold
\* the characters of a range label, MaxText + 3.
MaxText == 1

\* ------------------------------------------------------------------ options
None == <<>>

Some(x) == <<x>>

IsSome(o) == Len(o) > 0

Unwrap(o) == o[1]

\* ------------------------------------------------------------------ text
Str1(c) == <<c>>

DigitChars == <<"1", "2", "3", "4", "5", "6", "7", "8", "9">>

Dates == 1..MaxDate

\* chrono's format("%Y-%m-%d") of a date: the canonical text of the date.
FormatDate(d) == <<DigitChars[d]>>

\* str::trim on both ends.
RECURSIVE TrimStart(_)
TrimStart(t) == IF Len(t) > 0 /\ t[1] = " " THEN TrimStart(Tail(t)) ELSE t

RECURSIVE TrimEnd(_)
TrimEnd(t) == IF Len(t) > 0 /\ t[Len(t)] = " " THEN TrimEnd(SubSeq(t, 1, Len(t) - 1)) ELSE t

Trim(t) == TrimEnd(TrimStart(t))

UpperOf(c) == CASE c = "a" -> "A" [] c = "u" -> "U" [] c = "t" -> "T" [] c = "o" -> "O" [] OTHER -> c

ToUpper(t) == [i \in 1..Len(t) |-> UpperOf(t[i])]

\* String::pop
Pop(t) == IF Len(t) = 0 THEN t ELSE SubSeq(t, 1, Len(t) - 1)

\* str::split("..") : the pieces between non-overlapping ".." from the left.
RECURSIVE SplitDots(_, _)
SplitDots(t, cur) ==
  IF Len(t) = 0 THEN <<cur>>
  ELSE IF Len(t) >= 2 /\ t[1] = "." /\ t[2] = "."
       THEN <<cur>> \o SplitDots(SubSeq(t, 3, Len(t)), <<>>)
       ELSE SplitDots(Tail(t), Append(cur, t[1]))

\* ------------------------------------------------------------------ dates
\* utils/parsing.rs parse_date: the date a text denotes, if any.
parse_date(t) ==
  IF Len(t) = 1 /\ \E d \in Dates : t = FormatDate(d)
  THEN Some(CHOOSE d \in Dates : t = FormatDate(d))
  ELSE None

\* A label with a single dot between the dates.
label_one_dot(r) == r.start \o <<".">> \o r.end

\* DateRange::label
label(r) == r.start \o <<".", ".">> \o r.end

\* First day of the month of `today`.
MonthStart(today) == 1

\* Monday of the week of `today` (day 1 is a Monday).
WeekStart(today) == today - ((today - 1) % 7)

initial_date_range(today) == [start |-> FormatDate(MonthStart(today)), end |-> FormatDate(today)]

KwAuto == {<<"A", "U", "T", "O">>}

KwWeek == {<<"W">>}

\* utils/parsing.rs parse_date_range: [ok, range] ; no ordering check is made.
parse_date_range(input, today) ==
  LET kw == ToUpper(Trim(input))
      parts == SplitDots(input, <<>>)
      bad == [ok |-> FALSE, range |-> [start |-> <<>>, end |-> <<>>]]
  IN IF kw \in KwAuto
       THEN [ok |-> TRUE, range |-> [start |-> FormatDate(MonthStart(today)), end |-> FormatDate(today)]]
     ELSE IF kw \in KwWeek
       THEN [ok |-> TRUE, range |-> [start |-> FormatDate(WeekStart(today)), end |-> FormatDate(today)]]
     ELSE IF Len(parts) # 2 THEN bad
     ELSE IF ~IsSome(parse_date(Trim(parts[1]))) THEN bad
     ELSE IF ~IsSome(parse_date(Trim(parts[2]))) THEN bad
     ELSE [ok |-> TRUE, range |-> [start |-> Trim(parts[1]), end |-> Trim(parts[2])]]

\* ------------------------------------------------------------------ f32
\* A positive f32 is [mant, exp], the number mant / 2^exp with
\* 2^23 <= mant < 2^24; zero is [0, 0].  Results are rounded to the nearest
\* such number, ties to the even mantissa.
Pow2(n) == 2 ^ n

F32(mant, exp) == [mant |-> mant, exp |-> exp]

F32Zero == F32(0, 0)

\* n / d rounded to the nearest integer, ties to even.
RoundHalfEven(n, d) ==
  LET q == n \div d
      r == n % d
  IN IF 2 * r > d \/ (2 * r = d /\ q % 2 = 1) THEN q + 1 ELSE q

\* The least s from s0 on with n < 2^24 * 2^s.
RECURSIVE ShiftFor(_, _)
ShiftFor(n, s) == IF n < Pow2(24) * Pow2(s) THEN s ELSE ShiftFor(n, s + 1)

\* The least k from k0 on with n * 2^k >= d * 2^23.
RECURSIVE ScaleFor(_, _, _)
ScaleFor(n, d, k) == IF n * Pow2(k) >= d * Pow2(23) THEN k ELSE ScaleFor(n, d, k + 1)

\* The f32 nearest to n / 2^exp, for n > 0 that has 24 bits or more once
\* scaled.
F32Round(n, exp) ==
  LET s == ShiftFor(n, 0)
      p == RoundHalfEven(n, Pow2(s))
  IN IF p = Pow2(24) THEN F32(Pow2(23), exp - s - 1) ELSE F32(p, exp - s)

\* i32 as f32 / 60.0 for a count of minutes below 2^23.
F32Div60(minutes) ==
  IF minutes = 0 THEN F32Zero
  ELSE LET k == ScaleFor(minutes, 60, 0)
           m == RoundHalfEven(minutes * Pow2(k), 60)
       IN IF m = Pow2(24) THEN F32(Pow2(23), k - 1) ELSE F32(m, k)

\* (h * 60.0) as i32 : the product rounded to f32, then cut to its whole part.
F32Mul60AsI32(h) ==
  IF h.mant = 0 THEN 0
  ELSE LET p == F32Round(h.mant * 60, h.exp)
       IN IF p.exp >= 0 THEN p.mant \div Pow2(p.exp) ELSE p.mant * Pow2(0 - p.exp)

\* f32 + f32
F32Add(a, b) ==
  IF a.mant = 0 THEN b
  ELSE IF b.mant = 0 THEN a
  ELSE LET k == IF a.exp > b.exp THEN a.exp ELSE b.exp
       IN F32Round(a.mant * Pow2(k - a.exp) + b.mant * Pow2(k - b.exp), k)

\* The remote ledger: the entries the server holds for a date under one of
\* its possible contents.  An entry is [project, hours, note]; build_days
\* makes the hours of an entry from the minutes the server holds.
Entry(p, h, n) == [project |-> p, hours |-> h, note |-> n]

\* utils/parsing.rs build_days : hours = minutes as f32 / 60.0
HoursOf(minutes) == F32Div60(minutes)

Ledgers == {"busy"}

\* The entries of one hour and of two hours that the server holds.
EntryA == Entry(<<"a">>, HoursOf(60), <<"x">>)

EntryB == Entry(<<"b">>, HoursOf(120), <<"y">>)

LedgerEntries(ledger, d) ==
  IF ledger = "busy"
  THEN IF d = 1 THEN <<EntryA, EntryB>> ELSE <<EntryA>>
  ELSE <<>>

\* utils/parsing.rs build_range_days: one Day per date of [s, e], descending.
RECURSIVE build_range_days(_, _, _)
build_range_days(ledger, s, e) ==
  IF s > e THEN <<>>
  ELSE <<[date |-> FormatDate(e), entries |-> LedgerEntries(ledger, e)]>>
       \o build_range_days(ledger, s, e - 1)

\* build_empty_days were it to stop a day short of the end of the range.
build_empty_days_short(range) ==
  LET s == parse_date(range.start)
      e == parse_date(range.end)
  IN IF IsSome(s) /\ IsSome(e) THEN build_range_days("empty", Unwrap(s), Unwrap(e) - 1) ELSE <<>>

\* utils/parsing.rs build_empty_days
build_empty_days(range) ==
  LET s == parse_date(range.start)
      e == parse_date(range.end)
  IN IF IsSome(s) /\ IsSome(e) THEN build_range_days("empty", Unwrap(s), Unwrap(e)) ELSE <<>>

\* utils/parsing.rs build_days as called by fetch_days for a range.
build_days(ledger, range) ==
  LET s == parse_date(range.start)
      e == parse_date(range.end)
  IN IF IsSome(s) /\ IsSome(e) THEN build_range_days(ledger, Unwrap(s), Unwrap(e)) ELSE <<>>

\* ------------------------------------------------------------------ App
\* InputMode, AppFocus, FormField, ConfigField of application/app.rs.
InputModes == {"Normal", "Editing", "AddingEntry", "Configuring"}

FormFields == {"Date", "ProjectId", "Description", "Minutes", "Billable"}

\* A status line: a tag and the number formatted into it (0 when none).
Status(tag, n) == [tag |-> tag, n |-> n]

\* The default base URL (API_BASE), one indivisible piece of text.
API_BASE == <<"https://var.elaniin.com/api">>

\* AppConfig::default
DefaultConfig == [var_token |-> <<>>, base_url |-> API_BASE, default_date_range |-> None, theme |-> <<"tokyo-night">>]

\* spawn_load: a new single-result channel; the worker that will send into
\* it is recorded in `spawned` (the thread::spawn) with the range it captured.
spawn_load(a) ==
  [a EXCEPT !.issued = @ + 1,
            !.rx = Some([fid |-> a.issued + 1, state |-> "empty", days |-> <<>>, status |-> Status("", 0)]),
            !.spawned = Append(@, [kind |-> "days", fid |-> a.issued + 1, range |-> a.date_range])]

\* spawn_load_projects: as spawn_load, for the project list.
spawn_load_projects(a) ==
  [a EXCEPT !.rx_projects = Some([state |-> "empty", ok |-> FALSE, projects |-> <<>>]),
            !.spawned = Append(@, [kind |-> "projects", fid |-> 0, range |-> a.date_range])]

\* App::new with the loaded configuration and today's date.
AppNew(config, today) ==
  LET cfgr == IF IsSome(config.default_date_range)
              THEN parse_date_range(Unwrap(config.default_date_range), today)
              ELSE [ok |-> FALSE, range |-> initial_date_range(today)]
      date_range == IF cfgr.ok THEN cfgr.range ELSE initial_date_range(today)
      days == build_empty_days(date_range)
      a0 == [days |-> days,
             day_state |-> IF Len(days) > 0 THEN Some(0) ELSE None,
             entry_state |-> None,
             focus |-> "Days",
             status |-> Status("cargando...", 0),
             date_range |-> date_range,
             input_mode |-> "Normal",
             input |-> <<>>,
             rx |-> None,
             rx_projects |-> None,
             entry_form |-> None,
             projects |-> <<>>,
             config |-> config,
             config_form |-> None,
             issued |-> 0,
             applied |-> 0,
             stale_applied |-> FALSE,
             lost |-> {},
             spawned |-> <<>>,
             created |-> <<>>]
  IN spawn_load(spawn_load_projects(a0))

Min(x, y) == IF x < y THEN x ELSE y

\* A set_days that keeps the selection it finds, whatever the new list holds.
set_days_unclamped(a, days) == [a EXCEPT !.days = days, !.day_state = IF IsSome(@) THEN @ ELSE Some(0)]

\* App::set_days
set_days(a, days) ==
  [a EXCEPT !.days = days,
            !.day_state = IF Len(days) = 0 THEN None
                          ELSE Some(Min(IF IsSome(a.day_state) THEN Unwrap(a.day_state) ELSE 0,
                                        Len(days) - 1))]

\* App::selected_day
selected_day(a) ==
  IF IsSome(a.day_state) /\ Unwrap(a.day_state) < Len(a.days)
  THEN Some(a.days[Unwrap(a.day_state) + 1])
  ELSE None

\* A next_day that stops at the last day instead of wrapping.
next_day_clamped(a) ==
  IF Len(a.days) = 0 THEN a
  ELSE [a EXCEPT !.day_state =
          IF IsSome(a.day_state) /\ Unwrap(a.day_state) + 1 < Len(a.days)
          THEN Some(Unwrap(a.day_state) + 1) ELSE a.day_state]

\* App::next_day
next_day(a) ==
  IF Len(a.days) = 0 THEN a
  ELSE [a EXCEPT !.day_state =
          IF IsSome(a.day_state) /\ Unwrap(a.day_state) + 1 < Len(a.days)
          THEN Some(Unwrap(a.day_state) + 1) ELSE Some(0)]

\* App::previous_day
previous_day(a) ==
  IF Len(a.days) = 0 THEN a
  ELSE [a EXCEPT !.day_state =
          IF ~IsSome(a.day_state) \/ Unwrap(a.day_state) = 0
          THEN Some(Len(a.days) - 1) ELSE Some(Unwrap(a.day_state) - 1)]

\* App::focus_entries
focus_entries(a) ==
  IF IsSome(selected_day(a)) /\ Len(Unwrap(selected_day(a)).entries) > 0
  THEN [a EXCEPT !.focus = "Entries", !.entry_state = Some(0)]
  ELSE a

\* App::focus_days
focus_days(a) == [a EXCEPT !.focus = "Days", !.entry_state = None]

\* App::next_entry
next_entry(a) ==
  IF ~IsSome(selected_day(a)) THEN a
  ELSE LET n == Len(Unwrap(selected_day(a)).entries)
       IN IF n = 0 THEN a
          ELSE [a EXCEPT !.entry_state =
                  IF IsSome(a.entry_state) /\ Unwrap(a.entry_state) + 1 < n
                  THEN Some(Unwrap(a.entry_state) + 1) ELSE Some(0)]

\* App::previous_entry
previous_entry(a) ==
  IF ~IsSome(selected_day(a)) THEN a
  ELSE LET n == Len(Unwrap(selected_day(a)).entries)
       IN IF n = 0 THEN a
          ELSE [a EXCEPT !.entry_state =
                  IF ~IsSome(a.entry_state) \/ Unwrap(a.entry_state) = 0
                  THEN Some(n - 1) ELSE Some(Unwrap(a.entry_state) - 1)]

\* App::selected_entry
selected_entry(a) ==
  IF IsSome(selected_day(a)) /\ IsSome(a.entry_state)
     /\ Unwrap(a.entry_state) < Len(Unwrap(selected_day(a)).entries)
  THEN Some(Unwrap(selected_day(a)).entries[Unwrap(a.entry_state) + 1])
  ELSE None

\* A refresh that keeps tracking a fetch that is still outstanding.
refresh_keeps_outstanding(a) ==
  IF IsSome(a.rx)
  THEN [spawn_load(a) EXCEPT !.status = Status("actualizando...", 0), !.rx = a.rx]
  ELSE [spawn_load(a) EXCEPT !.status = Status("actualizando...", 0)]

\* App::refresh : the new receiver replaces (drops) the previous one.
refresh(a) == [spawn_load(a) EXCEPT !.status = Status("actualizando...", 0)]

\* App::start_input
start_input(a) == [a EXCEPT !.input_mode = "Editing", !.input = label(a.date_range)]

\* App::cancel_input
cancel_input(a) == [a EXCEPT !.input_mode = "Normal", !.input = <<>>]

\* A submit_input that gives up the edit when the text does not parse.
submit_input_giving_up(a, today) ==
  LET r == parse_date_range(a.input, today)
  IN IF r.ok
     THEN refresh(set_days([a EXCEPT !.date_range = r.range, !.input_mode = "Normal", !.input = <<>>],
                           build_empty_days(r.range)))
     ELSE [a EXCEPT !.status = Status("estado: error", 0), !.input_mode = "Normal", !.input = <<>>]

\* App::submit_input
submit_input(a, today) ==
  LET r == parse_date_range(a.input, today)
  IN IF r.ok
     THEN refresh(set_days([a EXCEPT !.date_range = r.range, !.input_mode = "Normal", !.input = <<>>],
                           build_empty_days(r.range)))
     ELSE [a EXCEPT !.status = Status("estado: error", 0)]

\* The length limit of the range input buffer.
InputCap == 64

\* App::input_push (every character of the model is ASCII)
input_push(a, ch) == IF Len(a.input) < InputCap THEN [a EXCEPT !.input = Append(@, ch)] ELSE a

\* App::input_backspace
input_backspace(a) == [a EXCEPT !.input = Pop(@)]

\* A poll that gives up a day fetch whose result is not in yet.
check_background_load_forgetting(a) ==
  LET a1 == IF ~IsSome(a.rx) THEN a
            ELSE LET rx == Unwrap(a.rx)
                 IN IF rx.state = "ready"
                      THEN [set_days(a, rx.days) EXCEPT !.status = rx.status, !.rx = None, !.applied = rx.fid,
                                                        !.stale_applied = @ \/ rx.fid # a.issued]
                    ELSE [a EXCEPT !.rx = None]
  IN IF ~IsSome(a1.rx_projects) THEN a1
     ELSE LET rp == Unwrap(a1.rx_projects)
          IN IF rp.state = "ready" /\ rp.ok
               THEN [a1 EXCEPT !.projects = rp.projects,
                               !.status = Status("proyectos cargados", Len(rp.projects)),
                               !.rx_projects = None]
             ELSE IF rp.state = "ready"
               THEN [a1 EXCEPT !.status = Status("error proyectos", 0), !.rx_projects = None]
             ELSE IF rp.state = "empty" THEN a1
             ELSE [a1 EXCEPT !.rx_projects = None]

\* A poll that applies a day result and goes on holding its receiver.
check_background_load_keeping_receiver(a) ==
  IF IsSome(a.rx) /\ Unwrap(a.rx).state = "ready"
  THEN [set_days(a, Unwrap(a.rx).days) EXCEPT !.status = Unwrap(a.rx).status, !.applied = Unwrap(a.rx).fid]
  ELSE a

\* App::check_background_load : the non-blocking poll of both receivers.
check_background_load(a) ==
  LET a1 == IF ~IsSome(a.rx) THEN a
            ELSE LET rx == Unwrap(a.rx)
                 IN IF rx.state = "ready"
                      THEN [set_days(a, rx.days) EXCEPT !.status = rx.status, !.rx = None, !.applied = rx.fid,
                                                        !.stale_applied = @ \/ rx.fid # a.issued]
                    ELSE IF rx.state = "empty" THEN a
                    ELSE [a EXCEPT !.rx = None]
  IN IF ~IsSome(a1.rx_projects) THEN a1
     ELSE LET rp == Unwrap(a1.rx_projects)
          IN IF rp.state = "ready" /\ rp.ok
               THEN [a1 EXCEPT !.projects = rp.projects,
                               !.status = Status("proyectos cargados", Len(rp.projects)),
                               !.rx_projects = None]
             ELSE IF rp.state = "ready"
               THEN [a1 EXCEPT !.status = Status("error proyectos", 0), !.rx_projects = None]
             ELSE IF rp.state = "empty" THEN a1
             ELSE [a1 EXCEPT !.rx_projects = None]

\* ------------------------------------------------------------------ entry form
Digit(n) == <<"0", "1", "2", "3", "4", "5", "6", "7", "8", "9">>[n + 1]

\* format!("{:02}:{:02}", hours, mins) for 0 <= minutes < 6000
FormatHHMM(minutes) ==
  <<Digit((minutes \div 60) \div 10), Digit((minutes \div 60) % 10), ":",
    Digit((minutes % 60) \div 10), Digit((minutes % 60) % 10)>>

\* EntryForm::new
EntryFormNew(default_date) ==
  [date |-> default_date, description |-> <<>>, minutes |-> <<>>, is_billable |-> TRUE,
   focused |-> "Date", project_search |-> <<>>, filtered_indices |-> <<>>,
   list_state |-> None, selected_project |-> None]

\* EntryForm::with_entry_data
EntryFormWithData(date, project_name, description, minutes, is_billable) ==
  [date |-> date, description |-> description, minutes |-> FormatHHMM(minutes),
   is_billable |-> is_billable, focused |-> "Description", project_search |-> project_name,
   filtered_indices |-> <<>>, list_state |-> None, selected_project |-> None]

\* EntryForm::next_field
NextField(f) ==
  CASE f = "Date" -> "ProjectId" [] f = "ProjectId" -> "Description"
    [] f = "Description" -> "Minutes" [] f = "Minutes" -> "Billable" [] OTHER -> "Date"

\* EntryForm::prev_field
PrevField(f) ==
  CASE f = "Date" -> "Billable" [] f = "ProjectId" -> "Date"
    [] f = "Description" -> "ProjectId" [] f = "Minutes" -> "Description" [] OTHER -> "Minutes"

LowerOf(c) == CASE c = "A" -> "a" [] c = "B" -> "b" [] OTHER -> c

\* str::to_lowercase
ToLower(t) == [i \in 1..Len(t) |-> LowerOf(t[i])]

\* str::contains
Contains(hay, needle) ==
  \E i \in 0..(Len(hay) - Len(needle)) : SubSeq(hay, i + 1, i + Len(needle)) = needle

\* How many projects the filter lists at most: take(20).
FilterCap == 20

\* The 0-based indices, in order, of the projects among the first n that match.
RECURSIVE MatchingIndices(_, _, _)
MatchingIndices(projects, query, n) ==
  IF n = 0 THEN <<>>
  ELSE LET rest == MatchingIndices(projects, query, n - 1)
       IN IF Contains(ToLower(projects[n].name), query) THEN Append(rest, n - 1) ELSE rest

Take(s, n) == SubSeq(s, 1, Min(Len(s), n))

\* A filter that lists every match.
update_project_filter_uncapped(a) ==
  IF ~IsSome(a.entry_form) THEN a
  ELSE LET form == Unwrap(a.entry_form)
           query == ToLower(form.project_search)
           idx == IF Len(query) = 0
                  THEN [i \in 1..Len(a.projects) |-> i - 1]
                  ELSE MatchingIndices(a.projects, query, Len(a.projects))
       IN [a EXCEPT !.entry_form = Some([form EXCEPT !.filtered_indices = idx,
                                                      !.list_state = IF Len(idx) > 0 THEN Some(0) ELSE None])]

\* App::update_project_filter
update_project_filter(a) ==
  IF ~IsSome(a.entry_form) THEN a
  ELSE LET form == Unwrap(a.entry_form)
           query == ToLower(form.project_search)
           idx == IF Len(query) = 0
                  THEN [i \in 1..Min(Len(a.projects), FilterCap) |-> i - 1]
                  ELSE Take(MatchingIndices(a.projects, query, Len(a.projects)), FilterCap)
       IN [a EXCEPT !.entry_form = Some([form EXCEPT !.filtered_indices = idx,
                                                      !.list_state = IF Len(idx) > 0 THEN Some(0) ELSE None])]

\* App::open_duplicate_entry
open_duplicate_entry(a) ==
  IF a.focus # "Entries" THEN a
  ELSE IF ~IsSome(selected_entry(a)) THEN a
  ELSE LET day == Unwrap(selected_day(a))
           entry == Unwrap(selected_entry(a))
       IN update_project_filter(
            [a EXCEPT !.entry_form = Some(EntryFormWithData(day.date, entry.project, entry.note,
                                                            F32Mul60AsI32(entry.hours), TRUE)),
                      !.input_mode = "AddingEntry"])

\* App::open_add_entry
open_add_entry(a, today) ==
  update_project_filter(
    [a EXCEPT !.entry_form = Some(EntryFormNew(IF IsSome(selected_day(a))
                                               THEN Unwrap(selected_day(a)).date
                                               ELSE FormatDate(today))),
              !.input_mode = "AddingEntry"])

\* App::close_add_entry
close_add_entry(a) == [a EXCEPT !.entry_form = None, !.input_mode = "Normal"]

\* App::form_next_field
form_next_field(a) ==
  IF IsSome(a.entry_form) THEN [a EXCEPT !.entry_form[1].focused = NextField(@)] ELSE a

\* App::form_prev_field
form_prev_field(a) ==
  IF IsSome(a.entry_form) THEN [a EXCEPT !.entry_form[1].focused = PrevField(@)] ELSE a

\* App::form_input_push
form_input_push(a, ch) ==
  IF ~IsSome(a.entry_form) THEN a
  ELSE LET f == Unwrap(a.entry_form).focused
       IN CASE f = "Date" -> [a EXCEPT !.entry_form[1].date = Append(@, ch)]
            [] f = "ProjectId" ->
                 update_project_filter([a EXCEPT !.entry_form[1].project_search = Append(@, ch)])
            [] f = "Description" -> [a EXCEPT !.entry_form[1].description = Append(@, ch)]
            [] f = "Minutes" -> [a EXCEPT !.entry_form[1].minutes = Append(@, ch)]
            [] OTHER -> IF ch = " " THEN [a EXCEPT !.entry_form[1].is_billable = ~@] ELSE a

\* App::form_input_backspace
form_input_backspace(a) ==
  IF ~IsSome(a.entry_form) THEN a
  ELSE LET f == Unwrap(a.entry_form).focused
       IN CASE f = "Date" -> [a EXCEPT !.entry_form[1].date = Pop(@)]
            [] f = "ProjectId" ->
                 update_project_filter([a EXCEPT !.entry_form[1].project_search = Pop(@)])
            [] f = "Description" -> [a EXCEPT !.entry_form[1].description = Pop(@)]
            [] f = "Minutes" -> [a EXCEPT !.entry_form[1].minutes = Pop(@)]
            [] OTHER -> a

\* App::form_nav_up
form_nav_up(a) ==
  IF ~IsSome(a.entry_form) THEN a
  ELSE LET form == Unwrap(a.entry_form)
           i == IF IsSome(form.list_state) THEN Unwrap(form.list_state) ELSE 0
       IN IF form.focused = "ProjectId" /\ Len(form.filtered_indices) > 0 /\ i > 0
          THEN [a EXCEPT !.entry_form[1].list_state = Some(i - 1)] ELSE a

\* App::form_nav_down
form_nav_down(a) ==
  IF ~IsSome(a.entry_form) THEN a
  ELSE LET form == Unwrap(a.entry_form)
           i == IF IsSome(form.list_state) THEN Unwrap(form.list_state) ELSE 0
       IN IF form.focused = "ProjectId" /\ Len(form.filtered_indices) > 0
             /\ i + 1 < Len(form.filtered_indices)
          THEN [a EXCEPT !.entry_form[1].list_state = Some(i + 1)] ELSE a

\* str::parse::<i32>() of decimal text, None when it is not a number.
RECURSIVE ParseDigits(_, _)
ParseDigits(t, acc) ==
  IF Len(t) = 0 THEN Some(acc)
  ELSE IF \E n \in 0..9 : Digit(n) = t[1]
       THEN ParseDigits(Tail(t), acc * 10 + (CHOOSE n \in 0..9 : Digit(n) = t[1]))
       ELSE None

ParseI32(t) ==
  IF Len(t) = 0 THEN None
  ELSE IF t[1] = "-"
       THEN IF Len(t) = 1 \/ ~IsSome(ParseDigits(Tail(t), 0)) THEN None
            ELSE Some(0 - Unwrap(ParseDigits(Tail(t), 0)))
  ELSE IF t[1] = "+"
       THEN IF Len(t) = 1 THEN None ELSE ParseDigits(Tail(t), 0)
  ELSE ParseDigits(t, 0)

ParseOr0(t) == IF IsSome(ParseI32(t)) THEN Unwrap(ParseI32(t)) ELSE 0

\* str::split(':')
RECURSIVE SplitColon(_, _)
SplitColon(t, cur) ==
  IF Len(t) = 0 THEN <<cur>>
  ELSE IF t[1] = ":" THEN <<cur>> \o SplitColon(Tail(t), <<>>)
       ELSE SplitColon(Tail(t), Append(cur, t[1]))

\* A minutes text read as a count of minutes only.
ParseMinutesAsCount(m_str) == ParseOr0(m_str)

\* The minutes computed by submit_entry from the minutes text.
ParseMinutes(m_str) ==
  IF \E i \in 1..Len(m_str) : m_str[i] = ":"
  THEN LET parts == SplitColon(m_str, <<>>)
       IN IF Len(parts) = 2 THEN ParseOr0(Trim(parts[1])) * 60 + ParseOr0(Trim(parts[2])) ELSE 0
  ELSE ParseOr0(m_str)

\* The project id submit_entry resolves from the form.
ResolvedProjectId(form) ==
  IF IsSome(form.selected_project) THEN Unwrap(form.selected_project).id
  ELSE ParseOr0(form.project_search)

\* A submit_entry that examines the minutes text before the other fields.
submit_entry_minutes_first(a, create_ok) ==
  IF ~IsSome(a.entry_form) THEN a
  ELSE LET form == Unwrap(a.entry_form)
           p_id == ResolvedProjectId(form)
           minutes == ParseMinutes(form.minutes)
       IN IF minutes = 0
            THEN [a EXCEPT !.status = Status("error: tiempo invalido", 0)]
          ELSE IF Len(form.date) = 0 \/ p_id = 0 \/ Len(form.description) = 0 \/ Len(form.minutes) = 0
            THEN [a EXCEPT !.status = Status("error: campos vacios o proyecto invalido", 0)]
          ELSE LET called == [a EXCEPT !.created = Append(@, [date |-> form.date, project_id |-> p_id,
                                                               description |-> form.description,
                                                               minutes |-> minutes,
                                                               is_billable |-> form.is_billable])]
               IN IF create_ok
                  THEN refresh([close_add_entry(called) EXCEPT !.status = Status("registro creado!", 0)])
                  ELSE [called EXCEPT !.status = Status("error crear", 0)]

\* A submit_entry that closes the form after a create without fetching.
submit_entry_without_fetch(a, create_ok) ==
  IF ~IsSome(a.entry_form) THEN a
  ELSE LET form == Unwrap(a.entry_form)
           p_id == ResolvedProjectId(form)
           minutes == ParseMinutes(form.minutes)
       IN IF Len(form.date) = 0 \/ p_id = 0 \/ Len(form.description) = 0 \/ Len(form.minutes) = 0
            THEN [a EXCEPT !.status = Status("error: campos vacios o proyecto invalido", 0)]
          ELSE IF minutes = 0
            THEN [a EXCEPT !.status = Status("error: tiempo invalido", 0)]
          ELSE LET called == [a EXCEPT !.created = Append(@, [date |-> form.date, project_id |-> p_id,
                                                               description |-> form.description,
                                                               minutes |-> minutes,
                                                               is_billable |-> form.is_billable])]
               IN IF create_ok
                  THEN [close_add_entry(called) EXCEPT !.status = Status("registro creado!", 0)]
                  ELSE [called EXCEPT !.status = Status("error crear", 0)]

\* App::submit_entry ; create_ok is the outcome of the remote create call
\* (a client that cannot be built counts as a create that failed).
submit_entry(a, create_ok) ==
  IF ~IsSome(a.entry_form) THEN a
  ELSE LET form == Unwrap(a.entry_form)
           p_id == ResolvedProjectId(form)
           minutes == ParseMinutes(form.minutes)
       IN IF Len(form.date) = 0 \/ p_id = 0 \/ Len(form.description) = 0 \/ Len(form.minutes) = 0
            THEN [a EXCEPT !.status = Status("error: campos vacios o proyecto invalido", 0)]
          ELSE IF minutes = 0
            THEN [a EXCEPT !.status = Status("error: tiempo invalido", 0)]
          ELSE LET called == [a EXCEPT !.created = Append(@, [date |-> form.date, project_id |-> p_id,
                                                               description |-> form.description,
                                                               minutes |-> minutes,
                                                               is_billable |-> form.is_billable])]
               IN IF create_ok
                  THEN refresh([close_add_entry(called) EXCEPT !.status = Status("registro creado!", 0)])
                  ELSE [called EXCEPT !.status = Status("error crear", 0)]

\* App::form_enter
form_enter(a, create_ok) ==
  IF ~IsSome(a.entry_form) THEN a
  ELSE LET form == Unwrap(a.entry_form)
           resolves == /\ form.focused = "ProjectId"
                       /\ IsSome(form.list_state)
                       /\ Unwrap(form.list_state) < Len(form.filtered_indices)
                       /\ form.filtered_indices[Unwrap(form.list_state) + 1] < Len(a.projects)
       IN IF resolves
            THEN LET project == a.projects[form.filtered_indices[Unwrap(form.list_state) + 1] + 1]
                 IN [a EXCEPT !.entry_form = Some([form EXCEPT !.selected_project = Some(project),
                                                                !.project_search = project.name,
                                                                !.filtered_indices = <<>>,
                                                                !.focused = NextField(@)])]
          ELSE IF form.focused = "Billable" THEN submit_entry(a, create_ok)
          ELSE form_next_field(a)

\* ------------------------------------------------------------------ config form
\* str::replace('"', "")
RECURSIVE StripQuotes(_)
StripQuotes(t) ==
  IF Len(t) = 0 THEN t
  ELSE IF t[1] = "\"" THEN StripQuotes(Tail(t)) ELSE <<t[1]>> \o StripQuotes(Tail(t))

\* App::get_effective_token ; envv holds the VAR_TOKEN / VAR_BASE_URL variables.
get_effective_token(a, envv) ==
  IF Len(a.config.var_token) > 0 THEN a.config.var_token
  ELSE IF IsSome(envv.token) THEN Trim(StripQuotes(Unwrap(envv.token))) ELSE <<>>

\* App::get_effective_base_url
get_effective_base_url(a, envv) ==
  IF Len(a.config.base_url) > 0 /\ a.config.base_url # API_BASE THEN a.config.base_url
  ELSE IF IsSome(envv.base_url) /\ Len(Trim(StripQuotes(Unwrap(envv.base_url)))) > 0
       THEN Trim(StripQuotes(Unwrap(envv.base_url)))
       ELSE API_BASE

\* App::open_config
open_config(a, envv) ==
  [a EXCEPT !.config_form = Some([token |-> get_effective_token(a, envv),
                                  base_url |-> get_effective_base_url(a, envv),
                                  default_range |-> IF IsSome(a.config.default_date_range)
                                                    THEN Unwrap(a.config.default_date_range) ELSE <<>>,
                                  theme |-> a.config.theme,
                                  focused |-> "Token"]),
            !.input_mode = "Configuring",
            !.status = Status("Configurando...", 0)]

\* App::close_config
close_config(a) ==
  [a EXCEPT !.config_form = None, !.input_mode = "Normal", !.status = Status("Cancelado", 0)]

\* A save that stores a default range only when its text parses.
save_config_form_validating(a, today, save_ok) ==
  IF ~IsSome(a.config_form) THEN a
  ELSE LET form == Unwrap(a.config_form)
           dr == Trim(form.default_range)
           r == IF Len(dr) = 0 THEN [ok |-> FALSE, range |-> a.date_range] ELSE parse_date_range(dr, today)
           new_config == [var_token |-> Trim(form.token), base_url |-> Trim(form.base_url),
                          default_date_range |-> IF r.ok THEN Some(dr) ELSE None,
                          theme |-> form.theme]
       IN IF ~save_ok THEN [a EXCEPT !.status = Status("Error guardando", 0)]
          ELSE LET a1 == [a EXCEPT !.config = new_config]
                   a2 == IF r.ok THEN set_days([a1 EXCEPT !.date_range = r.range], build_empty_days(r.range))
                         ELSE a1
               IN refresh([a2 EXCEPT !.status = Status("Configuracion guardada!", 0),
                                     !.config_form = None,
                                     !.input_mode = "Normal"])

\* App::save_config_form ; save_ok is the outcome of save_config.
save_config_form(a, today, save_ok) ==
  IF ~IsSome(a.config_form) THEN a
  ELSE LET form == Unwrap(a.config_form)
           dr == Trim(form.default_range)
           new_config == [var_token |-> Trim(form.token), base_url |-> Trim(form.base_url),
                          default_date_range |-> IF Len(dr) = 0 THEN None ELSE Some(dr),
                          theme |-> form.theme]
       IN IF ~save_ok THEN [a EXCEPT !.status = Status("Error guardando", 0)]
          ELSE LET a1 == [a EXCEPT !.config = new_config]
                   r == IF Len(dr) = 0 THEN [ok |-> FALSE, range |-> a.date_range]
                        ELSE parse_date_range(dr, today)
                   a2 == IF r.ok THEN set_days([a1 EXCEPT !.date_range = r.range], build_empty_days(r.range))
                         ELSE a1
               IN refresh([a2 EXCEPT !.status = Status("Configuracion guardada!", 0),
                                     !.config_form = None,
                                     !.input_mode = "Normal"])

\* App::config_next_field
config_next_field(a) ==
  IF ~IsSome(a.config_form) THEN a
  ELSE [a EXCEPT !.config_form[1].focused =
          CASE @ = "Token" -> "BaseUrl" [] @ = "BaseUrl" -> "DefaultRange"
            [] @ = "DefaultRange" -> "Token" [] OTHER -> @]

\* App::config_prev_field
config_prev_field(a) ==
  IF ~IsSome(a.config_form) THEN a
  ELSE [a EXCEPT !.config_form[1].focused =
          CASE @ = "Token" -> "DefaultRange" [] @ = "BaseUrl" -> "Token"
            [] @ = "DefaultRange" -> "BaseUrl" [] OTHER -> @]

\* App::config_input
config_input(a, ch) ==
  IF ~IsSome(a.config_form) THEN a
  ELSE LET f == Unwrap(a.config_form).focused
       IN CASE f = "Token" -> [a EXCEPT !.config_form[1].token = Append(@, ch)]
            [] f = "BaseUrl" -> [a EXCEPT !.config_form[1].base_url = Append(@, ch)]
            [] f = "DefaultRange" -> [a EXCEPT !.config_form[1].default_range = Append(@, ch)]
            [] OTHER -> a

\* App::config_backspace
config_backspace(a) ==
  IF ~IsSome(a.config_form) THEN a
  ELSE LET f == Unwrap(a.config_form).focused
       IN CASE f = "Token" -> [a EXCEPT !.config_form[1].token = Pop(@)]
            [] f = "BaseUrl" -> [a EXCEPT !.config_form[1].base_url = Pop(@)]
            [] f = "DefaultRange" -> [a EXCEPT !.config_form[1].default_range = Pop(@)]
            [] OTHER -> a

\* App::config_clear_field
config_clear_field(a) ==
  IF ~IsSome(a.config_form) THEN a
  ELSE LET f == Unwrap(a.config_form).focused
       IN CASE f = "Token" -> [a EXCEPT !.config_form[1].token = <<>>]
            [] f = "BaseUrl" -> [a EXCEPT !.config_form[1].base_url = <<>>]
            [] f = "DefaultRange" -> [a EXCEPT !.config_form[1].default_range = <<>>]
            [] OTHER -> a

\* The theme catalogue, of which the model keeps two names.
THEME_CATALOG == <<<<"tokyo-night">>, <<"nord">>>>

OtherTheme(th) == IF th = THEME_CATALOG[1] THEN THEME_CATALOG[2] ELSE THEME_CATALOG[1]

\* App::config_theme_next
config_theme_next(a) ==
  IF ~IsSome(a.config_form) THEN a ELSE [a EXCEPT !.config_form[1].theme = OtherTheme(@)]

\* App::config_theme_previous
config_theme_previous(a) ==
  IF ~IsSome(a.config_form) THEN a ELSE [a EXCEPT !.config_form[1].theme = OtherTheme(@)]

\* App::config_set_theme_value
config_set_theme_value(a, value) ==
  IF ~IsSome(a.config_form) THEN a ELSE [a EXCEPT !.config_form[1].theme = value]

\* App::config_reset_defaults
config_reset_defaults(a) ==
  IF ~IsSome(a.config_form) THEN a
  ELSE [a EXCEPT !.config_form[1].token = DefaultConfig.var_token,
                 !.config_form[1].base_url = DefaultConfig.base_url,
                 !.config_form[1].default_range = <<>>,
                 !.config_form[1].theme = DefaultConfig.theme,
                 !.status = Status("Configuracion restablecida", 0)]

\* ------------------------------------------------------------------ keys
\* A key event: a KeyCode (code, and ch for KeyCode::Char) with its modifiers.
Key(code, ch, mods) == [code |-> code, ch |-> ch, mods |-> mods]

CharKey(ch) == Key("Char", ch, {})

\* What a dispatcher decides for a key: the App method it calls ("none" when
\* it calls nothing), the character it passes, and the exit signal.
Decision(call, arg, exit) == [call |-> call, arg |-> arg, exit |-> exit]

\* The method table of App: the state after calling the named method.
\* e is the environment of the call: today's date, the environment
\* variables and the outcomes of the remote create and of save_config.
Invoke(a, call, arg, e) ==
  CASE call = "cancel_input" -> cancel_input(a)
    [] call = "submit_input" -> submit_input(a, e.today)
    [] call = "input_backspace" -> input_backspace(a)
    [] call = "input_push" -> input_push(a, arg)
    [] call = "close_add_entry" -> close_add_entry(a)
    [] call = "form_prev_field" -> form_prev_field(a)
    [] call = "form_next_field" -> form_next_field(a)
    [] call = "form_enter" -> form_enter(a, e.create_ok)
    [] call = "form_nav_up" -> form_nav_up(a)
    [] call = "form_nav_down" -> form_nav_down(a)
    [] call = "form_input_backspace" -> form_input_backspace(a)
    [] call = "form_input_push" -> form_input_push(a, arg)
    [] call = "submit_entry" -> submit_entry(a, e.create_ok)
    [] call = "close_config" -> close_config(a)
    [] call = "config_prev_field" -> config_prev_field(a)
    [] call = "config_next_field" -> config_next_field(a)
    [] call = "config_theme_previous" -> config_theme_previous(a)
    [] call = "config_theme_next" -> config_theme_next(a)
    [] call = "save_config_form" -> save_config_form(a, e.today, e.save_ok)
    [] call = "config_backspace" -> config_backspace(a)
    [] call = "config_clear_field" -> config_clear_field(a)
    [] call = "config_reset_defaults" -> config_reset_defaults(a)
    [] call = "config_input" -> config_input(a, arg)
    [] call = "next_entry" -> next_entry(a)
    [] call = "next_day" -> next_day(a)
    [] call = "previous_entry" -> previous_entry(a)
    [] call = "previous_day" -> previous_day(a)
    [] call = "focus_entries" -> focus_entries(a)
    [] call = "focus_days" -> focus_days(a)
    [] call = "open_duplicate_entry" -> open_duplicate_entry(a)
    [] call = "refresh" -> refresh(a)
    [] call = "start_input" -> start_input(a)
    [] call = "open_add_entry" -> open_add_entry(a, e.today)
    [] call = "open_config" -> open_config(a, e.vars)
    [] OTHER -> a

\* The Normal-mode key table, shared in shape by handle_key and run_app.
NormalDecision(focus, k) ==
  CASE k.code = "Char" /\ k.ch = "q" -> Decision("none", "", TRUE)
    [] k.code = "Down" \/ (k.code = "Char" /\ k.ch = "j") ->
         Decision(IF focus = "Entries" THEN "next_entry" ELSE "next_day", "", FALSE)
    [] k.code = "Up" \/ (k.code = "Char" /\ k.ch = "k") ->
         Decision(IF focus = "Entries" THEN "previous_entry" ELSE "previous_day", "", FALSE)
    [] k.code = "Char" /\ k.ch = "l" -> Decision("focus_entries", "", FALSE)
    [] (k.code = "Char" /\ k.ch = "h") \/ k.code = "Esc" -> Decision("focus_days", "", FALSE)
    [] k.code = "Char" /\ k.ch = "d" -> Decision("open_duplicate_entry", "", FALSE)
    [] k.code = "Char" /\ k.ch = "r" -> Decision("refresh", "", FALSE)
    [] k.code = "Char" /\ k.ch = "f" -> Decision("start_input", "", FALSE)
    [] k.code = "Char" /\ k.ch = "n" -> Decision("open_add_entry", "", FALSE)
    [] k.code = "Char" /\ k.ch = "c" -> Decision("open_config", "", FALSE)
    [] OTHER -> Decision("none", "", FALSE)

\* The Editing-mode key table.
EditingDecision(k) ==
  CASE k.code = "Esc" -> Decision("cancel_input", "", FALSE)
    [] k.code = "Enter" -> Decision("submit_input", "", FALSE)
    [] k.code = "Backspace" -> Decision("input_backspace", "", FALSE)
    [] k.code = "Char" -> Decision("input_push", k.ch, FALSE)
    [] OTHER -> Decision("none", "", FALSE)

\* The AddingEntry-mode key table.
AddingEntryDecision(k) ==
  CASE k.code = "Esc" -> Decision("close_add_entry", "", FALSE)
    [] k.code = "BackTab" -> Decision("form_prev_field", "", FALSE)
    [] k.code = "Tab" -> Decision("form_next_field", "", FALSE)
    [] k.code = "Enter" -> Decision("form_enter", "", FALSE)
    [] k.code = "Up" -> Decision("form_nav_up", "", FALSE)
    [] k.code = "Down" -> Decision("form_nav_down", "", FALSE)
    [] k.code = "Backspace" -> Decision("form_input_backspace", "", FALSE)
    [] k.code = "Char" -> Decision("form_input_push", k.ch, FALSE)
    [] OTHER -> Decision("none", "", FALSE)

\* The Configuring-mode key table of handle_key.
ConfiguringDecision(k) ==
  IF k.code = "Esc" THEN Decision("close_config", "", FALSE)
  ELSE IF k.code = "BackTab" THEN Decision("config_prev_field", "", FALSE)
  ELSE IF k.code = "Tab" THEN Decision("config_next_field", "", FALSE)
  ELSE IF k.code = "Up" THEN Decision("config_theme_previous", "", FALSE)
  ELSE IF k.code = "Down" THEN Decision("config_theme_next", "", FALSE)
  ELSE IF k.code = "Enter" THEN Decision("save_config_form", "", FALSE)
  ELSE IF k.code = "Backspace" THEN Decision("config_backspace", "", FALSE)
  ELSE IF k.code = "Char" /\ k.ch = "u" /\ "CONTROL" \in k.mods THEN Decision("config_clear_field", "", FALSE)
  ELSE IF k.code = "Char" /\ k.ch = "r" /\ "CONTROL" \in k.mods THEN Decision("config_reset_defaults", "", FALSE)
  ELSE IF k.code = "Char" THEN Decision("config_input", k.ch, FALSE)
  ELSE Decision("none", "", FALSE)

\* The Configuring-mode key table of run_app.
RunAppConfiguringDecision(k) ==
  IF k.code = "Esc" THEN Decision("close_config", "", FALSE)
  ELSE IF k.code = "Tab" THEN Decision("config_next_field", "", FALSE)
  ELSE IF k.code = "Enter" THEN Decision("save_config_form", "", FALSE)
  ELSE IF k.code = "Backspace" THEN Decision("config_backspace", "", FALSE)
  ELSE IF k.code = "Char" /\ k.ch = "u" /\ "CONTROL" \in k.mods THEN Decision("config_clear_field", "", FALSE)
  ELSE IF k.code = "Char" THEN Decision("config_input", k.ch, FALSE)
  ELSE Decision("none", "", FALSE)

\* A dispatcher whose quit key is not limited to Normal mode.
handle_key_decision_q_anywhere(mode, focus, k) ==
  IF k.code = "Char" /\ k.ch = "c" /\ "CONTROL" \in k.mods THEN Decision("none", "", TRUE)
  ELSE IF k.code = "Char" /\ k.ch = "q" THEN Decision("none", "", TRUE)
  ELSE IF mode = "Editing" THEN EditingDecision(k)
  ELSE IF mode = "AddingEntry" THEN AddingEntryDecision(k)
  ELSE IF mode = "Configuring" THEN ConfiguringDecision(k)
  ELSE NormalDecision(focus, k)

\* input.rs handle_key: the method call and exit signal chosen for a key.
handle_key_decision(mode, focus, k) ==
  IF k.code = "Char" /\ k.ch = "c" /\ "CONTROL" \in k.mods THEN Decision("none", "", TRUE)
  ELSE IF mode = "Editing" THEN EditingDecision(k)
  ELSE IF mode = "AddingEntry" THEN AddingEntryDecision(k)
  ELSE IF mode = "Configuring" THEN ConfiguringDecision(k)
  ELSE NormalDecision(focus, k)

\* main.rs run_app: the method call and exit decision of the terminal loop.
run_app_decision(mode, focus, k) ==
  IF k.code = "Char" /\ k.ch = "c" /\ "CONTROL" \in k.mods THEN Decision("none", "", TRUE)
  ELSE IF mode = "Editing" THEN EditingDecision(k)
  ELSE IF mode = "AddingEntry" THEN AddingEntryDecision(k)
  ELSE IF mode = "Configuring" THEN RunAppConfiguringDecision(k)
  ELSE NormalDecision(focus, k)

\* handle_key: the state after the key and the exit signal.
handle_key(a, k, e) ==
  LET d == handle_key_decision(a.input_mode, a.focus, k)
  IN [app |-> Invoke(a, d.call, d.arg, e), exit |-> d.exit]

\* One key event of the terminal loop: the state after it and whether the loop returns.
run_app_key(a, k, e) ==
  LET d == run_app_decision(a.input_mode, a.focus, k)
  IN [app |-> Invoke(a, d.call, d.arg, e), exit |-> d.exit]

\* ------------------------------------------------------------------ automation
\* mcp.rs parse_key_sequence.  A key name is text: one piece for a named key
\* (<<"up">>, <<"ctrl+c">>, <<"text">>), or <<"char:">> followed by characters.
NamedKeys ==
  [name \in {"up", "down", "left", "right", "enter", "esc", "tab", "backtab", "backspace",
             "space", "ctrl+c", "ctrl+r", "ctrl+u", "j", "k", "h", "l", "q", "r", "f", "n", "d", "c"} |->
     CASE name = "up" -> Key("Up", "", {})
       [] name = "down" -> Key("Down", "", {})
       [] name = "left" -> Key("Char", "h", {})
       [] name = "right" -> Key("Char", "l", {})
       [] name = "enter" -> Key("Enter", "", {})
       [] name = "esc" -> Key("Esc", "", {})
       [] name = "tab" -> Key("Tab", "", {})
       [] name = "backtab" -> Key("BackTab", "", {})
       [] name = "backspace" -> Key("Backspace", "", {})
       [] name = "space" -> Key("Char", " ", {})
       [] name = "ctrl+c" -> Key("Char", "c", {"CONTROL"})
       [] name = "ctrl+r" -> Key("Char", "r", {"CONTROL"})
       [] name = "ctrl+u" -> Key("Char", "u", {"CONTROL"})
       [] OTHER -> Key("Char", name, {})]

\* str::trim_start_matches : every leading repetition of the piece is removed.
RECURSIVE TrimStartMatches(_, _)
TrimStartMatches(t, piece) ==
  IF Len(t) > 0 /\ t[1] = piece THEN TrimStartMatches(Tail(t), piece) ELSE t

\* A parse_key_sequence that takes a key name it does not know as no key.
parse_key_sequence_skipping_unknown(key, text) ==
  IF key = <<"text">>
    THEN IF ~IsSome(text) \/ Len(Unwrap(text)) = 0 THEN [ok |-> FALSE, seq |-> <<>>]
         ELSE [ok |-> TRUE, seq |-> [i \in 1..Len(Unwrap(text)) |-> CharKey(Unwrap(text)[i])]]
  ELSE IF Len(key) > 0 /\ key[1] = "char:"
    THEN IF Len(TrimStartMatches(key, "char:")) = 0 THEN [ok |-> FALSE, seq |-> <<>>]
         ELSE [ok |-> TRUE, seq |-> <<CharKey(TrimStartMatches(key, "char:")[1])>>]
  ELSE IF Len(key) = 1 /\ key[1] \in DOMAIN NamedKeys
    THEN [ok |-> TRUE, seq |-> <<NamedKeys[key[1]]>>]
  ELSE [ok |-> TRUE, seq |-> <<>>]

parse_key_sequence(key, text) ==
  IF key = <<"text">>
    THEN IF ~IsSome(text) \/ Len(Unwrap(text)) = 0 THEN [ok |-> FALSE, seq |-> <<>>]
         ELSE [ok |-> TRUE, seq |-> [i \in 1..Len(Unwrap(text)) |-> CharKey(Unwrap(text)[i])]]
  ELSE IF Len(key) > 0 /\ key[1] = "char:"
    THEN IF Len(TrimStartMatches(key, "char:")) = 0 THEN [ok |-> FALSE, seq |-> <<>>]
         ELSE [ok |-> TRUE, seq |-> <<CharKey(TrimStartMatches(key, "char:")[1])>>]
  ELSE IF Len(key) = 1 /\ key[1] \in DOMAIN NamedKeys
    THEN [ok |-> TRUE, seq |-> <<NamedKeys[key[1]]>>]
  ELSE [ok |-> FALSE, seq |-> <<>>]

\* The replay loop of tool_session_key and execute_key_sequence: each key
\* goes through handle_key, then the background poll; an exit stops it.
RECURSIVE ReplayKeys(_, _, _)
ReplayKeys(a, seq, e) ==
  IF Len(seq) = 0 THEN [app |-> a, exit |-> FALSE]
  ELSE LET r == handle_key(a, seq[1], e)
       IN IF r.exit THEN [app |-> r.app, exit |-> TRUE]
          ELSE ReplayKeys(check_background_load(r.app), Tail(seq), e)

\* mcp.rs execute_key_sequence
execute_key_sequence(a, key, text, e) ==
  LET p == parse_key_sequence(key, text)
  IN IF ~p.ok THEN [ok |-> FALSE, app |-> a, exit |-> FALSE]
     ELSE [ok |-> TRUE, app |-> ReplayKeys(a, p.seq, e).app, exit |-> ReplayKeys(a, p.seq, e).exit]

\* mcp.rs normalize_action
normalize_action(action) ==
  CASE action = "n" -> "next_day" [] action = "p" -> "previous_day"
    [] action = "nd" -> "next_day" [] action = "pd" -> "previous_day"
    [] action = "ne" -> "next_entry" [] action = "pe" -> "previous_entry"
    [] action = "fd" -> "focus_days" [] action = "fe" -> "focus_entries"
    [] action = "rf" -> "refresh" [] action = "oa" -> "open_add_entry"
    [] action = "ca" -> "close_add_entry" [] action = "se" -> "submit_entry"
    [] action = "sf" -> "set_entry_field" [] action = "sp" -> "select_project"
    [] action = "tb" -> "toggle_billable" [] action = "oc" -> "open_config"
    [] action = "cc" -> "close_config" [] action = "sv" -> "save_config"
    [] action = "scf" -> "set_config_field" [] action = "clf" -> "config_clear_field"
    [] action = "sr" -> "set_range" [] action = "sk" -> "send_key"
    [] action = "tt" -> "type_text" [] action = "dup" -> "open_duplicate_entry"
    [] OTHER -> action

\* The arguments of one action step; an absent argument is None.
\* field and key are names, value and text are text, index is a number.
Args(field, value, index, key, text) ==
  [field |-> field, value |-> value, index |-> index, key |-> key, text |-> text]

NoArgs == Args(None, None, None, None, None)

Fail(a) == [ok |-> FALSE, app |-> a, exit |-> FALSE]

Done(a) == [ok |-> TRUE, app |-> a, exit |-> FALSE]

\* mcp.rs toggle_billable
toggle_billable(a, e) ==
  LET a1 == IF IsSome(a.entry_form) THEN a ELSE open_add_entry(a, e.today)
  IN Done([a1 EXCEPT !.entry_form[1].is_billable = ~@])

\* mcp.rs parse_form_field
parse_form_field(v) ==
  CASE v \in {"date", "d"} -> Some("Date")
    [] v \in {"project", "project_id", "p"} -> Some("ProjectId")
    [] v \in {"description", "desc", "n"} -> Some("Description")
    [] v \in {"minutes", "m"} -> Some("Minutes")
    [] v \in {"billable", "b"} -> Some("Billable")
    [] OTHER -> None

\* mcp.rs parse_config_field
parse_config_field(v) ==
  CASE v \in {"token", "t"} -> Some("Token")
    [] v \in {"base_url", "url", "u"} -> Some("BaseUrl")
    [] v \in {"default_range", "range", "r"} -> Some("DefaultRange")
    [] v \in {"theme", "th"} -> Some("Theme")
    [] OTHER -> None

\* mcp.rs parse_boolish of a text value
parse_boolish(t) ==
  LET v == ToLower(Trim(t))
  IN IF v \in {<<"1">>, <<"true">>, <<"yes">>, <<"y">>} THEN Some(TRUE)
     ELSE IF v \in {<<"0">>, <<"false">>, <<"no">>, <<"n">>} THEN Some(FALSE)
     ELSE None

\* i32::to_string
RECURSIVE FormatNat(_)
FormatNat(n) == IF n < 10 THEN <<Digit(n)>> ELSE Append(FormatNat(n \div 10), Digit(n % 10))

FormatInt(n) == IF n < 0 THEN <<"-">> \o FormatNat(0 - n) ELSE FormatNat(n)

\* The first project with the id, or None.
FindProject(projects, id) ==
  IF \E i \in 1..Len(projects) : projects[i].id = id
  THEN Some(projects[CHOOSE i \in 1..Len(projects) :
                       projects[i].id = id /\ \A j \in 1..(i - 1) : projects[j].id # id])
  ELSE None

\* mcp.rs set_entry_field ; a field name is the text <<name>>.
set_entry_field(a, args, e) ==
  LET a1 == IF IsSome(a.entry_form) THEN a ELSE open_add_entry(a, e.today)
      field == IF IsSome(args.field) THEN Unwrap(args.field) ELSE ""
      hasv == IsSome(args.value)
      v == IF hasv THEN Unwrap(args.value) ELSE <<>>
  IN IF ~IsSome(args.field) THEN Fail(a1)
     ELSE IF field \in {"date", "d"}
       THEN IF hasv THEN Done([a1 EXCEPT !.entry_form[1].date = v]) ELSE Fail(a1)
     ELSE IF field \in {"project", "project_search", "p"}
       THEN IF hasv
            THEN Done(update_project_filter([a1 EXCEPT !.entry_form[1].project_search = v,
                                                       !.entry_form[1].selected_project = None]))
            ELSE Fail(a1)
     ELSE IF field \in {"project_id", "pid"}
       THEN IF ~hasv \/ ~IsSome(ParseI32(Trim(v))) THEN Fail(a1)
            ELSE LET id == Unwrap(ParseI32(Trim(v)))
                     selected == FindProject(a1.projects, id)
                 IN IF IsSome(selected)
                    THEN Done([a1 EXCEPT !.entry_form[1].project_search = Unwrap(selected).name,
                                         !.entry_form[1].selected_project = selected,
                                         !.entry_form[1].filtered_indices = <<>>])
                    ELSE Done(update_project_filter(
                                [a1 EXCEPT !.entry_form[1].project_search = FormatInt(id),
                                           !.entry_form[1].selected_project = None]))
     ELSE IF field \in {"description", "desc", "n"}
       THEN IF hasv THEN Done([a1 EXCEPT !.entry_form[1].description = v]) ELSE Fail(a1)
     ELSE IF field \in {"minutes", "m"}
       THEN IF hasv THEN Done([a1 EXCEPT !.entry_form[1].minutes = v]) ELSE Fail(a1)
     ELSE IF field \in {"billable", "b"}
       THEN IF ~hasv THEN Done([a1 EXCEPT !.entry_form[1].is_billable = TRUE])
            ELSE IF IsSome(parse_boolish(v))
                 THEN Done([a1 EXCEPT !.entry_form[1].is_billable = Unwrap(parse_boolish(v))])
                 ELSE Fail(a1)
     ELSE IF field \in {"focused", "focus"}
       THEN IF hasv /\ Len(v) = 1 /\ IsSome(parse_form_field(v[1]))
            THEN Done([a1 EXCEPT !.entry_form[1].focused = Unwrap(parse_form_field(v[1]))])
            ELSE Fail(a1)
     ELSE Fail(a1)

\* mcp.rs select_project (move_next left at its default, true)
select_project(a, args, e) ==
  LET a1 == IF IsSome(a.entry_form) THEN a ELSE open_add_entry(a, e.today)
      a2 == IF Len(Unwrap(a1.entry_form).filtered_indices) = 0 THEN update_project_filter(a1) ELSE a1
      form == Unwrap(a2.entry_form)
      index == IF IsSome(args.index) THEN Unwrap(args.index) ELSE 0
  IN IF index >= Len(form.filtered_indices) THEN Fail(a2)
     ELSE IF form.filtered_indices[index + 1] >= Len(a2.projects) THEN Fail(a2)
     ELSE LET project == a2.projects[form.filtered_indices[index + 1] + 1]
          IN Done([a2 EXCEPT !.entry_form = Some([form EXCEPT !.selected_project = Some(project),
                                                               !.project_search = project.name,
                                                               !.filtered_indices = <<>>,
                                                               !.list_state = None,
                                                               !.focused = NextField(@)])])

\* mcp.rs set_config_field
set_config_field(a, args, e) ==
  LET a1 == IF IsSome(a.config_form) THEN a ELSE open_config(a, e.vars)
      field == IF IsSome(args.field) THEN Unwrap(args.field) ELSE ""
      v == IF IsSome(args.value) THEN Unwrap(args.value) ELSE <<>>
  IN IF ~IsSome(args.field) \/ ~IsSome(args.value) THEN Fail(a1)
     ELSE IF field \in {"theme", "th"} THEN Done(config_set_theme_value(a1, v))
     ELSE IF field \in {"token", "t"} THEN Done([a1 EXCEPT !.config_form[1].token = v])
     ELSE IF field \in {"base_url", "url", "u"} THEN Done([a1 EXCEPT !.config_form[1].base_url = v])
     ELSE IF field \in {"default_range", "range", "r"}
       THEN Done([a1 EXCEPT !.config_form[1].default_range = v])
     ELSE IF field \in {"focused", "focus"}
       THEN IF Len(v) = 1 /\ IsSome(parse_config_field(v[1]))
            THEN Done([a1 EXCEPT !.config_form[1].focused = Unwrap(parse_config_field(v[1]))])
            ELSE Fail(a1)
     ELSE Fail(a1)

\* mcp.rs clear_config_field
clear_config_field(a, args, e) ==
  LET a1 == IF IsSome(a.config_form) THEN a ELSE open_config(a, e.vars)
  IN IF ~IsSome(args.field) THEN Done(config_clear_field(a1))
     ELSE LET target == parse_config_field(Unwrap(args.field))
          IN IF ~IsSome(target) THEN Fail(a1)
             ELSE IF Unwrap(target) = "Theme" THEN Done(config_set_theme_value(a1, <<>>))
             ELSE IF Unwrap(target) = "Token" THEN Done([a1 EXCEPT !.config_form[1].token = <<>>])
             ELSE IF Unwrap(target) = "BaseUrl" THEN Done([a1 EXCEPT !.config_form[1].base_url = <<>>])
             ELSE Done([a1 EXCEPT !.config_form[1].default_range = <<>>])

\* The actions of apply_action that are one App method call.
MethodOfAction ==
  [action \in {"refresh", "focus_days", "focus_entries", "next_day", "previous_day", "next_entry",
               "previous_entry", "open_duplicate_entry", "open_add_entry", "close_add_entry",
               "submit_entry", "entry_next_field", "entry_prev_field", "entry_enter", "entry_nav_up",
               "entry_nav_down", "entry_backspace", "open_config", "close_config", "save_config",
               "config_next_field", "config_backspace", "config_reset_defaults", "open_range_editor",
               "submit_range", "cancel_range_editor"} |->
     CASE action = "entry_next_field" -> "form_next_field"
       [] action = "entry_prev_field" -> "form_prev_field"
       [] action = "entry_enter" -> "form_enter"
       [] action = "entry_nav_up" -> "form_nav_up"
       [] action = "entry_nav_down" -> "form_nav_down"
       [] action = "entry_backspace" -> "form_input_backspace"
       [] action = "save_config" -> "save_config_form"
       [] action = "open_range_editor" -> "start_input"
       [] action = "submit_range" -> "submit_input"
       [] action = "cancel_range_editor" -> "cancel_input"
       [] OTHER -> action]

\* The trailing poll of apply_action after a step that did not fail.
Polled(r) == IF r.ok THEN [r EXCEPT !.app = check_background_load(r.app)] ELSE r

\* mcp.rs apply_action : [ok, app, exit] ; ok is FALSE for an Err result.
apply_action(a, action, args, e) ==
  IF action = "noop" THEN Polled(Done(a))
  ELSE IF action \in DOMAIN MethodOfAction THEN Polled(Done(Invoke(a, MethodOfAction[action], "", e)))
  ELSE IF action = "toggle_billable" THEN Polled(toggle_billable(a, e))
  ELSE IF action = "set_entry_field" THEN Polled(set_entry_field(a, args, e))
  ELSE IF action = "select_project" THEN Polled(select_project(a, args, e))
  ELSE IF action = "config_clear_field" THEN Polled(clear_config_field(a, args, e))
  ELSE IF action = "set_config_field" THEN Polled(set_config_field(a, args, e))
  ELSE IF action = "set_range"
    THEN IF ~IsSome(args.value) \/ ~parse_date_range(Unwrap(args.value), e.today).ok THEN Fail(a)
         ELSE Polled(Done(submit_input([start_input(a) EXCEPT !.input = Unwrap(args.value)], e.today)))
  ELSE IF action = "send_key"
    THEN IF ~IsSome(args.key) THEN Fail(a) ELSE execute_key_sequence(a, Unwrap(args.key), args.text, e)
  ELSE IF action = "type_text"
    THEN IF ~IsSome(args.text) THEN Fail(a) ELSE execute_key_sequence(a, <<"text">>, args.text, e)
  ELSE Fail(a)

\* ------------------------------------------------------------------ workers
\* The project list the remote API serves, sorted by client then name.
ServerProjects ==
  <<[id |-> 1, name |-> <<"a">>, client_name |-> <<"c">>],
    [id |-> 2, name |-> <<"A", "b">>, client_name |-> <<"c">>]>>

\* The environment variables VAR_TOKEN and VAR_BASE_URL of the process.
EnvVars == [token |-> Some(<<"\"", "e", "\"">>), base_url |-> None]

\* The environment of a call: today's date, the environment variables and
\* the outcomes of a remote create and of save_config.
EnvOf(today, create_ok, save_ok) ==
  [today |-> today, vars |-> EnvVars, create_ok |-> create_ok, save_ok |-> save_ok]

\* The worker threads an operation started are handed to the scheduler.
Started(a) == {a.spawned[i] : i \in 1..Len(a.spawned)}

\* The App once the threads it started and the remote calls it made are
\* accounted for.
Settled(a) == [a EXCEPT !.spawned = <<>>, !.created = <<>>]

\* What a day-range worker sends for the range it captured.
DaysResult(w, outcome) ==
  IF outcome = "err" THEN [days |-> <<>>, status |-> Status("fetch error", 0)]
  ELSE [days |-> build_days(outcome, w.range),
        status |-> Status("actualizado", Len(build_days(outcome, w.range)))]

\* A send that never reaches the receiver.
deliver_days_nowhere(a, w, res) == [a EXCEPT !.lost = @ \cup {w.fid}]

\* tx.send of a day-range worker: it reaches the receiver the App still
\* holds for this channel; a send to a dropped receiver is lost.
deliver_days(a, w, res) ==
  IF IsSome(a.rx) /\ Unwrap(a.rx).fid = w.fid
  THEN [a EXCEPT !.rx[1].state = "ready", !.rx[1].days = res.days, !.rx[1].status = res.status]
  ELSE [a EXCEPT !.lost = @ \cup {w.fid}]

\* tx.send of the projects worker.
deliver_projects(a, ok) ==
  IF IsSome(a.rx_projects)
  THEN [a EXCEPT !.rx_projects[1].state = "ready", !.rx_projects[1].ok = ok,
                 !.rx_projects[1].projects = IF ok THEN ServerProjects ELSE <<>>]
  ELSE a

\* The worker behind the day-range receiver the App holds: it captured the
\* range the App had when the receiver was made, which is still its range.
CurrentDaysWorker(a) == [kind |-> "days", fid |-> Unwrap(a.rx).fid, range |-> a.date_range]

\* ------------------------------------------------------------------ server
\* A session id "session-N" is modelled by its number N.
\* ServerState::default
ServerStateDefault == [next_session_id |-> 0, sessions |-> <<>>]

Insert(f, k, v) == [x \in DOMAIN f \cup {k} |-> IF x = k THEN v ELSE f[x]]

Remove(f, k) == [x \in DOMAIN f \ {k} |-> f[x]]

\* App::new_headless
new_headless(config, today) == Settled(AppNew(config, today))

\* App::wait_background_load : polls until both results are in or the
\* timeout passes; arrived tells which of the two happened.
wait_background_load(a, arrived) ==
  IF arrived
  THEN check_background_load(
         deliver_projects(deliver_days(a, CurrentDaysWorker(a), DaysResult(CurrentDaysWorker(a), "busy")),
                          TRUE))
  ELSE check_background_load(a)

\* ServerState::create_session
create_session(st, e) ==
  [next_session_id |-> st.next_session_id + 1,
   sessions |-> Insert(st.sessions, st.next_session_id + 1, new_headless(DefaultConfig, e.today))]

\* A lookup that falls back to some other session when the id is missing.
get_session_mut_or_any(st, session_id) ==
  IF session_id \in DOMAIN st.sessions THEN [ok |-> TRUE, sid |-> session_id]
  ELSE IF DOMAIN st.sessions # {} THEN [ok |-> TRUE, sid |-> CHOOSE s \in DOMAIN st.sessions : TRUE]
  ELSE [ok |-> FALSE, sid |-> session_id]

\* ServerState::get_session_mut : whether the id is in the map, and the key
\* of the entry the returned reference points into.
get_session_mut(st, session_id) ==
  [ok |-> session_id \in DOMAIN st.sessions, sid |-> session_id]

\* A write through a session reference that lands in every session.
StoreSessionInAll(st, sid, a) == [st EXCEPT !.sessions = [s \in DOMAIN st.sessions |-> a]]

\* The writes made through the reference get_session_mut returned.
StoreSession(st, sid, a) == [st EXCEPT !.sessions[sid] = a]

\* A close that leaves the session in the map.
close_session_keeping(st, session_id) ==
  [st |-> st, removed |-> session_id \in DOMAIN st.sessions]

\* A close_session that gives the id of the newest session back to the
\* counter.
close_session_releasing_id(st, session_id) ==
  [st |-> [st EXCEPT !.sessions = Remove(@, session_id),
                     !.next_session_id = IF session_id = @ /\ session_id \in DOMAIN st.sessions
                                         THEN @ - 1 ELSE @],
   removed |-> session_id \in DOMAIN st.sessions]

\* ServerState::close_session
close_session(st, session_id) ==
  [st |-> [st EXCEPT !.sessions = Remove(@, session_id)],
   removed |-> session_id \in DOMAIN st.sessions]

\* The arguments of a tools/call: the session id (a number, None when the
\* field is missing), the view name, the key name and the action steps;
\* TextArgs adds the text of a session.key call.
ToolArgs(sid, view, key, steps) ==
  [sid |-> sid, view |-> view, key |-> key, steps |-> steps, text |-> None]

TextArgs(sid, key, text) == [ToolArgs(sid, None, key, None) EXCEPT !.text = text]

\* mcp.rs parse_snapshot_view
parse_snapshot_view(raw, default) ==
  IF ~IsSome(raw) THEN [ok |-> TRUE, view |-> default]
  ELSE CASE Unwrap(raw) \in {"none", "0"} -> [ok |-> TRUE, view |-> "None"]
         [] Unwrap(raw) \in {"tiny", "t"} -> [ok |-> TRUE, view |-> "Tiny"]
         [] Unwrap(raw) \in {"normal", "n"} -> [ok |-> TRUE, view |-> "Normal"]
         [] Unwrap(raw) \in {"full", "f"} -> [ok |-> TRUE, view |-> "Full"]
         [] OTHER -> [ok |-> FALSE, view |-> default]

\* mcp.rs parse_response_options (the view; the other options keep their defaults)
parse_response_options(args, default_view) == parse_snapshot_view(args.view, default_view)

\* mcp.rs parse_session_id
parse_session_id(args) == [ok |-> IsSome(args.sid), sid |-> IF IsSome(args.sid) THEN Unwrap(args.sid) ELSE 0]

\* mcp.rs build_tiny_snapshot
build_tiny_snapshot(session_id, a) ==
  [sid |-> session_id, im |-> a.input_mode, fc |-> a.focus, dr |-> label(a.date_range),
   di |-> a.day_state, ei |-> a.entry_state, dc |-> Len(a.days), pc |-> Len(a.projects),
   st |-> a.status]

\* mcp.rs clip_text
clip_text(value, max_chars) ==
  IF Len(value) > max_chars THEN Append(SubSeq(value, 1, max_chars), "~") ELSE value

\* A mask that keeps only what comes before the last character of a short
\* value.
mask_secret_shorter(value) ==
  IF Len(value) = 0 THEN <<>>
  ELSE LET keep == Min(4, Len(value) - 1)
       IN <<"*", "*", "*">> \o SubSeq(value, Len(value) - keep + 1, Len(value))

\* mcp.rs mask_secret
mask_secret(value) ==
  IF Len(value) = 0 THEN <<>>
  ELSE LET keep == Min(4, Len(value))
       IN <<"*", "*", "*">> \o SubSeq(value, Len(value) - keep + 1, Len(value))

\* Day::total_hours
RECURSIVE SumHours(_, _)
SumHours(acc, entries) ==
  IF Len(entries) = 0 THEN acc ELSE SumHours(F32Add(acc, entries[1].hours), Tail(entries))

total_hours(day) == SumHours(F32Zero, day.entries)

\* mcp.rs build_normal_snapshot
build_normal_snapshot(session_id, a) ==
  [sid |-> session_id, im |-> a.input_mode, fc |-> a.focus, dr |-> label(a.date_range),
   di |-> a.day_state, ei |-> a.entry_state, dc |-> Len(a.days), pc |-> Len(a.projects),
   st |-> a.status,
   sd |-> IF IsSome(selected_day(a))
          THEN LET day == Unwrap(selected_day(a))
               IN Some([d |-> day.date, ec |-> Len(day.entries), th |-> total_hours(day)])
          ELSE None,
   se |-> IF IsSome(selected_entry(a))
          THEN LET entry == Unwrap(selected_entry(a))
               IN Some([p |-> clip_text(entry.project, 48), h |-> entry.hours, n |-> clip_text(entry.note, 140)])
          ELSE None,
   ef |-> IF IsSome(a.entry_form)
          THEN LET form == Unwrap(a.entry_form)
               IN Some([f |-> form.focused, d |-> form.date, p |-> clip_text(form.project_search, 48),
                        m |-> form.minutes, b |-> form.is_billable, fc |-> Len(form.filtered_indices)])
          ELSE None,
   cf |-> IF IsSome(a.config_form)
          THEN LET form == Unwrap(a.config_form)
               IN Some([f |-> form.focused, u |-> clip_text(form.base_url, 96),
                        r |-> clip_text(form.default_range, 48), th |-> clip_text(form.theme, 40),
                        t |-> mask_secret(form.token)])
          ELSE None]

\* A full snapshot that counts only the entries it lists.
build_full_snapshot_counting_listed(session_id, a, max_days, max_entries) ==
  [normal |-> build_normal_snapshot(session_id, a),
   ds |-> [i \in 1..Min(max_days, Len(a.days)) |->
             LET day == a.days[i]
                 listed == Take(day.entries, max_entries)
             IN [d |-> day.date, th |-> total_hours(day), ec |-> Len(listed),
                 e |-> [j \in 1..Len(listed) |->
                          [p |-> clip_text(listed[j].project, 64), h |-> listed[j].hours,
                           n |-> clip_text(listed[j].note, 220)]]]]]

\* mcp.rs build_full_snapshot ; `normal` is the object the day list ds is
\* inserted into.
build_full_snapshot(session_id, a, max_days, max_entries) ==
  [normal |-> build_normal_snapshot(session_id, a),
   ds |-> [i \in 1..Len(Take(a.days, max_days)) |->
             LET day == a.days[i]
                 listed == Take(day.entries, max_entries)
             IN [d |-> day.date, th |-> total_hours(day), ec |-> Len(day.entries),
                 e |-> [j \in 1..Len(listed) |->
                          [p |-> clip_text(listed[j].project, 64), h |-> listed[j].hours,
                           n |-> clip_text(listed[j].note, 220)]]]]]

\* The limits of parse_response_options: their defaults and their caps.
DefaultMaxDays == 14

MaxDaysCap == 120

DefaultMaxEntries == 20

MaxEntriesCap == 300

\* mcp.rs build_snapshot ; the limits of a full view keep their defaults.
build_snapshot(session_id, a, view) ==
  CASE view = "None" -> None
    [] view = "Tiny" -> Some(build_tiny_snapshot(session_id, a))
    [] view = "Normal" -> Some(build_normal_snapshot(session_id, a))
    [] OTHER -> Some(build_full_snapshot(session_id, a, DefaultMaxDays, DefaultMaxEntries))

\* The content of a tool result: the event code e, the session id, the
\* number n of keys or steps, the exit flag x, the closed flag c and the
\* snapshot s.
Content(ev, sid, n, x, c, s) == [e |-> ev, sid |-> sid, n |-> n, x |-> x, c |-> c, s |-> s]

NoContent == Content("", 0, 0, FALSE, FALSE, None)

\* Result<Value, String> of a tool, with the server state it leaves.
ToolOk(st, content) == [st |-> st, ok |-> TRUE, content |-> content, m |-> ""]

ToolErr(st, m) == [st |-> st, ok |-> FALSE, content |-> NoContent, m |-> m]

NotFound == "Sesion no encontrada"

\* mcp.rs tool_session_create, from the bounded wait on: a is the App the
\* wait leaves in the new session.
Created(st, session_id, a, view) ==
  ToolOk(StoreSession(st, session_id, a),
         Content("sc", session_id, 0, FALSE, FALSE, build_snapshot(session_id, a, view)))

\* mcp.rs tool_session_create
tool_session_create(args, st, e, arrived) ==
  LET o == parse_response_options(args, "Tiny")
  IN IF ~o.ok THEN ToolErr(st, "view invalido")
     ELSE Created(create_session(st, e), st.next_session_id + 1,
                  wait_background_load(new_headless(DefaultConfig, e.today), arrived), o.view)

\* mcp.rs tool_session_snapshot, from the poll on: a is the polled App.
Snapshot(st, target, session_id, a, view) ==
  ToolOk(StoreSession(st, target, a),
         Content("ss", session_id, 0, FALSE, FALSE, build_snapshot(session_id, a, view)))

\* mcp.rs tool_session_snapshot
tool_session_snapshot(args, st) ==
  LET o == parse_response_options(args, "Normal")
      p == parse_session_id(args)
      g == get_session_mut(st, p.sid)
  IN IF ~o.ok THEN ToolErr(st, "view invalido")
     ELSE IF ~p.ok THEN ToolErr(st, "Falta campo requerido")
     ELSE IF ~g.ok THEN ToolErr(st, NotFound)
     ELSE Snapshot(st, g.sid, p.sid, check_background_load(st.sessions[g.sid]), o.view)

\* The end of tool_session_key and of tool_session_action: the snapshot
\* unless the exit was requested, and the close when it was.
Closing(ev, st, session_id, view, n, exit_requested) ==
  ToolOk(IF exit_requested THEN close_session(st, session_id).st ELSE st,
         Content(ev, session_id, n, exit_requested, FALSE,
                 IF exit_requested \/ session_id \notin DOMAIN st.sessions THEN None
                 ELSE build_snapshot(session_id, st.sessions[session_id], view)))

\* What the two tools do with the result r of their loop over the session
\* the reference points into: an Err of a step leaves what earlier steps did.
Replayed(ev, st, target, session_id, view, n, r) ==
  IF ~r.ok THEN ToolErr(StoreSession(st, target, Settled(r.app)), "Accion fallida")
  ELSE Closing(ev, StoreSession(st, target, Settled(r.app)), session_id, view, n, r.exit)

\* The result of the key loop, which has no Err.
Okay(r) == [ok |-> TRUE, app |-> r.app, exit |-> r.exit]

\* mcp.rs tool_session_key
tool_session_key(args, st, e) ==
  LET o == parse_response_options(args, "Tiny")
      p == parse_session_id(args)
      sequence == parse_key_sequence(Unwrap(args.key), args.text)
      g == get_session_mut(st, p.sid)
  IN IF ~o.ok THEN ToolErr(st, "view invalido")
     ELSE IF ~p.ok \/ ~IsSome(args.key) THEN ToolErr(st, "Falta campo requerido")
     ELSE IF ~sequence.ok THEN ToolErr(st, "Key no soportada")
     ELSE IF ~g.ok THEN ToolErr(st, NotFound)
     ELSE Replayed("sk", st, g.sid, p.sid, o.view, Len(sequence.seq),
                   Okay(ReplayKeys(st.sessions[g.sid], sequence.seq, e)))

\* An item of the actions list that is no object, and an object with the
\* arguments args that has no action name.
NotAnObject == <<>>

Nameless(args) == <<args>>

\* mcp.rs parse_action_steps : the steps are <<action, arguments>> pairs;
\* every item is examined before any step is returned.
parse_action_steps(args) ==
  [ok |-> /\ IsSome(args.steps)
          /\ Len(Unwrap(args.steps)) > 0
          /\ \A i \in 1..Len(Unwrap(args.steps)) : Len(Unwrap(args.steps)[i]) = 2,
   steps |-> IF IsSome(args.steps) THEN Unwrap(args.steps) ELSE <<>>]

\* The step loop of tool_session_action: each step is normalized and
\* applied; an error or an exit stops it, keeping what earlier steps did.
RECURSIVE ApplySteps(_, _, _, _)
RECURSIVE AfterStep(_, _, _, _)
ApplySteps(a, steps, e, applied) ==
  IF Len(steps) = 0 THEN [ok |-> TRUE, app |-> a, exit |-> FALSE, applied |-> applied]
  ELSE AfterStep(apply_action(a, normalize_action(steps[1][1]), steps[1][2], e), steps, e, applied)

\* A loop that goes on with the next step after a step that failed.
AfterStepSkippingFailed(r, steps, e, applied) ==
  IF ~r.ok THEN [ApplySteps(r.app, Tail(steps), e, applied) EXCEPT !.ok = FALSE]
  ELSE IF r.exit THEN [ok |-> TRUE, app |-> r.app, exit |-> TRUE, applied |-> applied + 1]
  ELSE ApplySteps(r.app, Tail(steps), e, applied + 1)

\* A loop that counts the steps left behind by an exit as applied.
AfterStepCountingAll(r, steps, e, applied) ==
  IF ~r.ok THEN [ok |-> FALSE, app |-> r.app, exit |-> FALSE, applied |-> applied]
  ELSE IF r.exit THEN [ok |-> TRUE, app |-> r.app, exit |-> TRUE, applied |-> applied + Len(steps)]
  ELSE ApplySteps(r.app, Tail(steps), e, applied + 1)

\* What the loop does with the result r of the first of steps.
AfterStep(r, steps, e, applied) ==
  IF ~r.ok THEN [ok |-> FALSE, app |-> r.app, exit |-> FALSE, applied |-> applied]
  ELSE IF r.exit THEN [ok |-> TRUE, app |-> r.app, exit |-> TRUE, applied |-> applied + 1]
  ELSE ApplySteps(r.app, Tail(steps), e, applied + 1)

\* mcp.rs tool_session_action, from the end of the step loop on.
ActionsApplied(st, target, session_id, view, r) ==
  Replayed("sa", st, target, session_id, view, r.applied, r)

\* mcp.rs tool_session_action
tool_session_action(args, st, e) ==
  LET o == parse_response_options(args, "Tiny")
      p == parse_session_id(args)
      steps == parse_action_steps(args)
      g == get_session_mut(st, p.sid)
  IN IF ~o.ok THEN ToolErr(st, "view invalido")
     ELSE IF ~p.ok THEN ToolErr(st, "Falta campo requerido")
     ELSE IF ~steps.ok THEN ToolErr(st, "actions no puede estar vacio")
     ELSE IF ~g.ok THEN ToolErr(st, NotFound)
     ELSE ActionsApplied(st, g.sid, p.sid, o.view, ApplySteps(st.sessions[g.sid], steps.steps, e, 0))

\* mcp.rs tool_session_close
tool_session_close(args, st) ==
  LET p == parse_session_id(args)
      closing == close_session(st, p.sid)
  IN IF ~p.ok THEN ToolErr(st, "Falta campo requerido")
     ELSE ToolOk(closing.st, Content("sx", p.sid, 0, FALSE, closing.removed, None))

\* mcp.rs handle_tool_call ; params are [name, args], the name being "" for
\* params that are no object or that have no name.
handle_tool_call(params, st, e, arrived) ==
  CASE params.name = "" -> ToolErr(st, "tools/call requiere params tipo objeto")
    [] params.name = "vartui.session.create" -> tool_session_create(params.args, st, e, arrived)
    [] params.name = "vartui.session.snapshot" -> tool_session_snapshot(params.args, st)
    [] params.name = "vartui.session.key" -> tool_session_key(params.args, st, e)
    [] params.name = "vartui.session.action" -> tool_session_action(params.args, st, e)
    [] params.name = "vartui.session.close" -> tool_session_close(params.args, st)
    [] OTHER -> ToolErr(st, "Tool no soportada")

\* The result value of a response: a tool result (isError with its message
\* m, or its content), or the fixed value `what` of another method.
ResultValue(what, isError, m, content) == [what |-> what, isError |-> isError, m |-> m, content |-> content]

\* mcp.rs tool_error_result : the payload is {e: "er", m: message}.
tool_error_result(message) == ResultValue("tool", TRUE, message, Content("er", 0, 0, FALSE, FALSE, None))

\* mcp.rs build_tool_result
build_tool_result(content) == ResultValue("tool", FALSE, "", content)

\* An rpc_result that answers with a null id.
rpc_result_null_id(rpc_id, result) == [id |-> 0, kind |-> "result", code |-> 0, result |-> result]

\* mcp.rs rpc_result
rpc_result(rpc_id, result) == [id |-> rpc_id, kind |-> "result", code |-> 0, result |-> result]

\* mcp.rs rpc_error
rpc_error(rpc_id, code, message) ==
  [id |-> rpc_id, kind |-> "error", code |-> code, result |-> ResultValue("error", TRUE, message, NoContent)]

\* A request: its id (None for a notification), its method and its params.
RpcRequest(id, method, params) == [id |-> id, method |-> method, params |-> params]

NoParams == [name |-> "", args |-> ToolArgs(None, None, None, None)]

RpcOutcome(response, exit, st) == [response |-> response, exit |-> exit, st |-> st]

\* A tools/call that answers the error of a tool with a JSON-RPC error object.
ToolResponseAsRpcError(rpc_id, t) ==
  RpcOutcome(Some(IF t.ok THEN rpc_result(rpc_id, build_tool_result(t.content)) ELSE rpc_error(rpc_id, -32000, t.m)),
             FALSE, t.st)

\* The response to a tools/call whose tool returned t.
ToolResponse(rpc_id, t) ==
  RpcOutcome(Some(rpc_result(rpc_id, IF t.ok THEN build_tool_result(t.content) ELSE tool_error_result(t.m))),
             FALSE, t.st)

\* A handle_rpc_request that runs the tool of a tools/call without an id and
\* drops its answer.
handle_rpc_request_running_unanswered(request, st, e, arrived) ==
  LET id == request.id
      Answer(what) == IF IsSome(id) THEN Some(rpc_result(Unwrap(id), ResultValue(what, FALSE, "", NoContent)))
                      ELSE None
  IN CASE request.method = "initialize" -> RpcOutcome(Answer("initialize"), FALSE, st)
       [] request.method = "notifications/initialized" -> RpcOutcome(None, FALSE, st)
       [] request.method = "ping" -> RpcOutcome(Answer("ping"), FALSE, st)
       [] request.method = "tools/list" -> RpcOutcome(Answer("tools"), FALSE, st)
       [] request.method = "tools/call" ->
            IF ~IsSome(id) THEN RpcOutcome(None, FALSE, handle_tool_call(request.params, st, e, arrived).st)
            ELSE ToolResponse(Unwrap(id), handle_tool_call(request.params, st, e, arrived))
       [] request.method = "shutdown" -> RpcOutcome(Answer("shutdown"), FALSE, st)
       [] request.method = "exit" -> RpcOutcome(None, TRUE, st)
       [] OTHER -> RpcOutcome(IF IsSome(id) THEN Some(rpc_error(Unwrap(id), -32601, "Metodo no soportado"))
                              ELSE None,
                              FALSE, st)

\* mcp.rs handle_rpc_request ; the tool of a tools/call runs only inside
\* id.map, that is when the request has an id.
handle_rpc_request(request, st, e, arrived) ==
  LET id == request.id
      Answer(what) == IF IsSome(id) THEN Some(rpc_result(Unwrap(id), ResultValue(what, FALSE, "", NoContent)))
                      ELSE None
  IN CASE request.method = "initialize" -> RpcOutcome(Answer("initialize"), FALSE, st)
       [] request.method = "notifications/initialized" -> RpcOutcome(None, FALSE, st)
       [] request.method = "ping" -> RpcOutcome(Answer("ping"), FALSE, st)
       [] request.method = "tools/list" -> RpcOutcome(Answer("tools"), FALSE, st)
       [] request.method = "tools/call" ->
            IF ~IsSome(id) THEN RpcOutcome(None, FALSE, st)
            ELSE ToolResponse(Unwrap(id), handle_tool_call(request.params, st, e, arrived))
       [] request.method = "shutdown" -> RpcOutcome(Answer("shutdown"), FALSE, st)
       [] request.method = "exit" -> RpcOutcome(None, TRUE, st)
       [] OTHER -> RpcOutcome(IF IsSome(id) THEN Some(rpc_error(Unwrap(id), -32601, "Metodo no soportado"))
                              ELSE None,
                              FALSE, st)

\* ------------------------------------------------------------------ state
VARIABLES
  app,        \* the App of the session under study
  workers,    \* its fetch worker threads that have not finished yet
  exited,     \* whether a key or step has signalled exit for it
  now,        \* today's date
  probe,      \* the last key or method call put to the App, with what it did
  state,      \* the ServerState of the automation server
  request,    \* the request the server has read and not yet left behind
  frames,     \* the response frames it wrote for that request
  stopped,    \* whether its loop has ended
  closed,     \* the session ids it has removed from the map
  pc,         \* where its loop is: "read", "handle" or "loop"
  wire,       \* the last thing it took from its input, with what the read returned
  waited      \* the polls the bounded wait of a session being created has made

sessionVars == <<app, workers, exited, now>>

serverVars == <<state, request, frames, stopped, closed, pc, wire, waited>>

vars == <<app, workers, exited, now, probe, state, request, frames, stopped, closed, pc, wire, waited>>

\* The configurations load_config may return at start.
InitConfigs == {DefaultConfig}

Env(create_ok, save_ok) == EnvOf(now, create_ok, save_ok)

\* The texts a form is filled with when it is opened from an entry or when
\* a project is resolved, which may be longer than what is typed.
PrefilledMinutes == {FormatHHMM(h * 60) : h \in 1..2}

PrefilledNames ==
  {ServerProjects[i].name : i \in 1..Len(ServerProjects)}
  \cup UNION {{LedgerEntries(l, d)[i].project : i \in 1..Len(LedgerEntries(l, d))} :
                l \in Ledgers, d \in Dates}

\* The bounds of the model on a state of App.
TextsWithin(a) ==
  /\ Len(a.input) <= MaxText + 3
  /\ IsSome(a.entry_form) =>
       LET f == Unwrap(a.entry_form)
       IN /\ Len(f.date) <= MaxText
          /\ Len(f.description) <= MaxText
          /\ Len(f.minutes) <= MaxText \/ f.minutes \in PrefilledMinutes
          /\ Len(f.project_search) <= MaxText \/ f.project_search \in PrefilledNames
  /\ IsSome(a.config_form) =>
       LET c == Unwrap(a.config_form)
       IN /\ Len(c.token) <= MaxText
          /\ Len(c.base_url) <= MaxText
          /\ Len(c.default_range) <= MaxText + 3

Within(a) == a.issued <= MaxFetches + 1 /\ TextsWithin(a)

\* A server that has not started.
ServerIdle ==
  /\ state = ServerStateDefault
  /\ request = None
  /\ frames = <<>>
  /\ stopped = FALSE
  /\ closed = {}
  /\ pc = "read"
  /\ wire = None
  /\ waited = 0

\* A session right after App::new.
SessionStart ==
  /\ now = MaxDate
  /\ \E config \in InitConfigs :
       /\ app = Settled(AppNew(config, now))
       /\ workers = Started(AppNew(config, now))
  /\ exited = FALSE

Init == SessionStart /\ probe = None /\ ServerIdle

\* The session takes the result r of a key replay or of a batch of steps: its
\* App, the threads it started and its exit signal.
SessionTakes(r) ==
  /\ Within(r.app)
  /\ app' = Settled(r.app)
  /\ workers' = workers \cup Started(r.app)
  /\ exited' = r.exit

\* session.key with one key name drawn from keys: the replay loop, then the
\* exit decision.  remote_ok is the outcome of a remote create or a save_config.
SessionKey(keys) ==
  /\ ~exited
  /\ \E key \in keys, remote_ok \in BOOLEAN :
       SessionTakes(execute_key_sequence(app, key, None, Env(remote_ok, remote_ok)))
  /\ UNCHANGED <<now, probe, serverVars>>

\* session.action with one batch of steps drawn from batches; outcomes are
\* the outcomes its remote create or save_config may have.
SessionAction(batches, outcomes) ==
  /\ ~exited
  /\ \E steps \in batches, remote_ok \in outcomes :
       SessionTakes(ApplySteps(app, steps, Env(remote_ok, remote_ok), 0))
  /\ UNCHANGED <<now, probe, serverVars>>

\* session.snapshot: the background poll alone.
SessionSnapshot ==
  /\ ~exited
  /\ app' = check_background_load(app)
  /\ UNCHANGED <<workers, exited, now, probe, serverVars>>

\* A worker thread finishes its remote call and sends the result.
WorkerSends ==
  \E w \in workers :
    /\ workers' = workers \ {w}
    /\ \/ /\ w.kind = "days"
          /\ \E outcome \in Ledgers \cup {"err"} : app' = deliver_days(app, w, DaysResult(w, outcome))
       \/ /\ w.kind = "projects"
          /\ \E ok \in BOOLEAN : app' = deliver_projects(app, ok)

WorkerFinish == WorkerSends /\ UNCHANGED <<exited, now, probe, serverVars>>

\* The session once the results of its current fetches are in and polled.
Loaded(a) ==
  check_background_load(
    deliver_projects(deliver_days(a, CurrentDaysWorker(a), DaysResult(CurrentDaysWorker(a), "busy")), TRUE))

\* ------------------------------------------------------------------ Spec
\* A session that browses days, changes its range, saves a configuration
\* and submits an entry while its fetches come back in any order.
RangeTexts == {<<"1", ".", ".", "1">>, <<"2", ".", ".", "1">>, <<"a", "u", "t", "o">>, <<"1", ".">>}

Step(action) == <<action, NoArgs>>

SetField(action, field, value) == <<action, Args(Some(field), Some(value), None, None, None)>>

NavKeys ==
  IF app.input_mode = "Normal" THEN {<<n>> : n \in {"j", "k", "l", "h", "r", "q", "ctrl+c", "up", "d"}}
  ELSE {<<"esc">>, <<"enter">>, <<"ctrl+c">>}

SaveConfigBatch ==
  <<Step("oc"), SetField("scf", "range", <<"1", ".", ".", "1">>), Step("save_config")>>

SubmitEntryBatch ==
  <<Step("open_add_entry"), SetField("set_entry_field", "minutes", <<"5">>),
    SetField("set_entry_field", "project_id", <<"1">>), SetField("sf", "description", <<"x">>),
    Step("submit_entry")>>

NavBatches ==
  {<<Step(action)>> : action \in {"noop", "refresh", "focus_days", "focus_entries", "next_day",
                                  "previous_day", "next_entry", "previous_entry", "bogus"}}
  \cup {<<<<"set_range", Args(None, Some(t), None, None, None)>>>> : t \in RangeTexts}
  \cup {SaveConfigBatch, SubmitEntryBatch}

Next ==
  \/ SessionKey(NavKeys)
  \/ SessionAction(NavBatches, {TRUE})
  \/ SessionSnapshot
  \/ WorkerFinish

Spec == Init /\ [][Next]_vars

\* ------------------------------------------------------------------ SpecForm
\* A session whose entry form and range editor are opened, edited and left
\* by keys and by steps, after its first two fetches have come back.
FormKeys ==
  IF app.input_mode = "Normal" THEN {<<"n">>, <<"esc">>}
  ELSE IF app.input_mode = "AddingEntry"
    THEN {<<n>> : n \in {"esc", "tab", "backtab", "enter", "backspace", "down"}} \cup {<<"char:", "x">>}
  ELSE {<<"esc">>}

FormBatches ==
  {<<Step(action)>> : action \in {"open_add_entry", "close_add_entry", "open_range_editor",
                                  "cancel_range_editor"}}
  \cup {<<SetField("set_entry_field", "project", <<"a">>)>>}

InitForm ==
  /\ now = MaxDate
  /\ app = Loaded(Settled(AppNew(DefaultConfig, MaxDate)))
  /\ workers = {}
  /\ exited = FALSE
  /\ probe = None
  /\ ServerIdle

NextForm ==
  \/ SessionKey(FormKeys)
  \/ SessionAction(FormBatches, BOOLEAN)

SpecForm == InitForm /\ [][NextForm]_vars

\* ------------------------------------------------------------------ SpecKeys
\* One key event put to handle_key and to the key handling of run_app, in a
\* session state of each mode and focus.
KeyStates ==
  LET fresh == Settled(AppNew(DefaultConfig, MaxDate))
      loaded == Loaded(fresh)
  IN {fresh, loaded, focus_entries(loaded), start_input(loaded),
      open_add_entry(loaded, MaxDate), form_next_field(open_add_entry(loaded, MaxDate)),
      open_config(loaded, EnvVars), config_next_field(open_config(loaded, EnvVars))}

KeyCodes == {"Esc", "Enter", "Backspace", "Tab", "BackTab", "Up", "Down", "Left", "F1"}

KeyChars == {"q", "j", "k", "l", "h", "d", "r", "f", "n", "c", "u", "1", " "}

Modifiers == SUBSET {"CONTROL", "SHIFT"}

AllKeys ==
  {Key(code, "", mods) : code \in KeyCodes, mods \in Modifiers}
  \cup {Key("Char", ch, mods) : ch \in KeyChars, mods \in Modifiers}

InitKeys ==
  /\ now = MaxDate
  /\ app \in KeyStates
  /\ workers = {}
  /\ exited = FALSE
  /\ probe = None
  /\ ServerIdle

PressKey ==
  /\ probe = None
  /\ \E k \in AllKeys, remote_ok \in BOOLEAN :
       LET hk == handle_key(app, k, Env(remote_ok, remote_ok))
           ra == run_app_key(app, k, Env(remote_ok, remote_ok))
       IN /\ probe' = Some([key |-> k, mode |-> app.input_mode, focus |-> app.focus, before |-> app,
                            handle_key |-> handle_key_decision(app.input_mode, app.focus, k),
                            run_app |-> run_app_decision(app.input_mode, app.focus, k),
                            after |-> Settled(hk.app),
                            after_run_app |-> Settled(ra.app)])
          /\ app' = Settled(hk.app)
          /\ exited' = hk.exit
  /\ UNCHANGED <<workers, now, serverVars>>

NextKeys == PressKey

SpecKeys == InitKeys /\ [][NextKeys]_vars

\* ------------------------------------------------------------------ SpecServer
\* The automation server: requests with and without an id, tool calls on
\* sessions that exist, were closed or were never created.
SessionIds == 1..MaxSessions

RpcIds == {None, Some(1), Some(2)}

ToolCall(id, name, args) == RpcRequest(id, "tools/call", [name |-> name, args |-> args])

ServerKeys == {<<"j">>, <<"ctrl+c">>, <<"q">>, <<"zz">>}

SendKey(key) == <<"send_key", Args(None, None, None, Some(key), None)>>

\* A batch whose second step of three signals exit.
ExitingBatch == <<Step("next_day"), SendKey(<<"ctrl+c">>), Step("oa")>>

ServerBatches ==
  {<<Step("next_day")>>, <<Step("oa")>>, <<Step("bogus")>>, <<Step("n"), Step("bogus")>>,
   <<SendKey(<<"ctrl+c">>)>>, ExitingBatch, <<>>}

Sids == {None} \cup {Some(s) : s \in SessionIds}

Views == {None, Some("none"), Some("bogus")}

\* run_mcp reads the next framed message: a well-formed request.
Read(req) ==
  /\ pc = "read"
  /\ request' = Some(req)
  /\ pc' = "handle"
  /\ UNCHANGED <<sessionVars, probe, state, frames, stopped, closed, wire, waited>>

ReadPlain ==
  \E id \in RpcIds, method \in {"initialize", "notifications/initialized", "ping", "tools/list",
                               "shutdown", "bogus"} :
    Read(RpcRequest(id, method, NoParams))

ReadExit == \E id \in RpcIds : Read(RpcRequest(id, "exit", NoParams))

ReadCreate ==
  \E id \in RpcIds, view \in Views :
    Read(ToolCall(id, "vartui.session.create", ToolArgs(None, view, None, None)))

ReadSnapshot ==
  \E id \in RpcIds, sid \in Sids, view \in Views :
    Read(ToolCall(id, "vartui.session.snapshot", ToolArgs(sid, view, None, None)))

ReadKey ==
  \E id \in RpcIds, sid \in Sids, key \in ServerKeys :
    Read(ToolCall(id, "vartui.session.key", ToolArgs(sid, None, Some(key), None)))

ReadAction ==
  \E id \in RpcIds, sid \in Sids, steps \in ServerBatches :
    Read(ToolCall(id, "vartui.session.action", ToolArgs(sid, None, None, Some(steps))))

ReadClose ==
  \E id \in RpcIds, sid \in Sids :
    Read(ToolCall(id, "vartui.session.close", ToolArgs(sid, None, None, None)))

ReadUnknownTool ==
  \E id \in RpcIds : Read(ToolCall(id, "vartui.session.bogus", ToolArgs(None, None, None, None)))

\* A tools/call whose params are no object.
ReadBareCall == \E id \in RpcIds : Read(RpcRequest(id, "tools/call", NoParams))

\* run_mcp with the outcome of the request: the response is written if
\* there is one, and exit ends the loop.
Handled(outcome) ==
  /\ outcome.st.next_session_id <= MaxSessions
  /\ \A s \in DOMAIN outcome.st.sessions : TextsWithin(outcome.st.sessions[s])
  /\ state' = outcome.st
  /\ frames' = IF IsSome(outcome.response) THEN <<Unwrap(outcome.response)>> ELSE <<>>
  /\ stopped' = outcome.exit
  /\ closed' = closed \cup (DOMAIN state.sessions \ DOMAIN outcome.st.sessions)

\* run_mcp handles the request it read.  arrived is whether the first
\* fetches of a session that is created came back within its bounded wait.
Handle ==
  /\ pc = "handle"
  /\ \E arrived \in BOOLEAN :
       Handled(handle_rpc_request(Unwrap(request), state, EnvOf(MaxDate, TRUE, TRUE), arrived))
  /\ pc' = "loop"
  /\ UNCHANGED <<sessionVars, probe, request, wire, waited>>

\* run_mcp goes round its loop, unless the request was exit.
Loop ==
  /\ pc = "loop"
  /\ ~stopped
  /\ request' = None
  /\ frames' = <<>>
  /\ pc' = "read"
  /\ UNCHANGED <<sessionVars, probe, state, stopped, closed, wire, waited>>

\* The day-range worker of a session sends its result.
SessionWorkerSends ==
  /\ ~stopped
  /\ \E s \in DOMAIN state.sessions :
       LET a == state.sessions[s]
       IN /\ IsSome(a.rx) /\ Unwrap(a.rx).state = "empty"
          /\ \E outcome \in Ledgers \cup {"err"} :
               state' = StoreSession(state, s, deliver_days(a, CurrentDaysWorker(a),
                                                           DaysResult(CurrentDaysWorker(a), outcome)))

SessionWorkerFinish ==
  /\ SessionWorkerSends
  /\ UNCHANGED <<sessionVars, probe, request, frames, stopped, closed, pc, wire, waited>>

InitServer ==
  /\ now = MaxDate
  /\ app = Settled(AppNew(DefaultConfig, MaxDate))
  /\ workers = {}
  /\ exited = FALSE
  /\ probe = None
  /\ ServerIdle

NextServer ==
  \/ ReadPlain
  \/ ReadExit
  \/ ReadCreate
  \/ ReadSnapshot
  \/ ReadKey
  \/ ReadAction
  \/ ReadClose
  \/ ReadUnknownTool
  \/ ReadBareCall
  \/ Handle
  \/ Loop
  \/ SessionWorkerFinish

SpecServer == InitServer /\ [][NextServer]_vars

\* ------------------------------------------------------------------ SpecFrames
\* The automation server on a stream of framed messages, well formed or not.
\* A framed message: its Content-Length header (None when it has none, else
\* the text of its value), the bytes of body that follow before the input
\* ends, whether they are valid UTF-8, and what they hold.  A body is one
\* unit long.
Frame(header, bytes, utf8, payload) == [header |-> header, bytes |-> bytes, utf8 |-> utf8, payload |-> payload]

\* The payload of a body: blank text, text that is not JSON, or a request.
Payload(kind, req) == [kind |-> kind, req |-> req]

\* io::Result<Option<String>>
ReadOk(body) == [ok |-> TRUE, body |-> body]

ReadErr == [ok |-> FALSE, body |-> None]

\* str::parse::<usize>() of the header value
ParseUsize(t) == IF Len(t) = 0 \/ t[1] = "-" THEN None ELSE ParseI32(t)

\* mcp.rs read_framed_message ; input is None at the end of the input.
read_framed_message(input) ==
  IF ~IsSome(input) THEN ReadOk(None)
  ELSE LET f == Unwrap(input)
           content_length == IF IsSome(f.header) THEN ParseUsize(Trim(Unwrap(f.header))) ELSE None
       IN IF ~IsSome(content_length) THEN ReadErr
          ELSE IF f.bytes < Unwrap(content_length) THEN ReadErr
          ELSE IF ~f.utf8 THEN ReadErr
          ELSE ReadOk(Some(f.payload))

\* The response run_mcp writes for a body that is not JSON: a null id and
\* the parse error code.
InvalidJsonResponse ==
  [id |-> 0, kind |-> "error", code |-> -32700, result |-> ResultValue("error", TRUE, "JSON invalido", NoContent)]

\* run_mcp with what read_framed_message returned: an Err returns from
\* run_mcp, the end of the input breaks the loop, a blank payload and an
\* invalid one go round it, and a request goes on to be handled.
TakeRead(r) ==
  IF ~r.ok \/ ~IsSome(r.body)
  THEN stopped' = TRUE /\ frames' = <<>> /\ request' = None /\ pc' = "read"
  ELSE IF Unwrap(r.body).kind = "blank"
  THEN stopped' = FALSE /\ frames' = <<>> /\ request' = None /\ pc' = "read"
  ELSE IF Unwrap(r.body).kind = "garbage"
  THEN stopped' = FALSE /\ frames' = <<InvalidJsonResponse>> /\ request' = None /\ pc' = "read"
  ELSE stopped' = FALSE /\ frames' = <<>> /\ request' = Some(Unwrap(r.body).req) /\ pc' = "handle"

FrameRequests ==
  {RpcRequest(id, method, NoParams) : id \in {None, Some(1)}, method \in {"ping", "exit"}}
  \cup {ToolCall(Some(1), "vartui.session.create", ToolArgs(None, None, None, None))}

Payloads ==
  {Payload("blank", RpcRequest(None, "", NoParams)), Payload("garbage", RpcRequest(None, "", NoParams))}
  \cup {Payload("request", req) : req \in FrameRequests}

Inputs ==
  {None} \cup {Some(Frame(header, bytes, utf8, payload)) :
                 header \in {None, Some(<<"x">>), Some(<<"1">>)}, bytes \in 0..1,
                 utf8 \in BOOLEAN, payload \in Payloads}

\* run_mcp reads the next framed message from its input.
ReadFramed ==
  /\ pc = "read"
  /\ ~stopped
  /\ \E input \in Inputs :
       /\ wire' = Some([input |-> input, read |-> read_framed_message(input)])
       /\ TakeRead(read_framed_message(input))
  /\ UNCHANGED <<sessionVars, probe, state, closed, waited>>

NextFrames ==
  \/ ReadFramed
  \/ Handle
  \/ Loop

SpecFrames == InitServer /\ [][NextFrames]_vars

\* ------------------------------------------------------------------ SpecOps
\* A session whose range editor and lists are driven one App method call at
\* a time, the last step recorded by name and by the remote creates it
\* made, while the fetches come back in any order.
\* The methods the semantic actions call in any mode, and the two that only
\* the keys of the range editor call.
OpCalls ==
  {<<call, "">> : call \in {"next_day", "previous_day", "next_entry", "previous_entry",
                            "focus_entries", "focus_days", "refresh", "start_input",
                            "cancel_input", "submit_input"}}
  \cup IF app.input_mode = "Editing"
       THEN {<<"input_backspace", "">>} \cup {<<"input_push", ch>> : ch \in {"1", "3", "."}}
       ELSE {}

\* The range texts that are typed, a character at a time.
OpTexts == {<<"1", ".", ".", "3">>, <<"1", ".", ".", "1">>, <<"3", ".", ".", "1">>}

OpInputs == UNION {{SubSeq(t, 1, n) : n \in 0..Len(t)} : t \in OpTexts}

\* The session takes the state `after` that the call returned.
OpTakes(call, arg, after) ==
  /\ Within(after)
  /\ after.input \in OpInputs
  /\ probe' = Some([call |-> call, arg |-> arg, created |-> after.created])
  /\ app' = Settled(after)
  /\ workers' = workers \cup Started(after)

\* One method of App is called.
Call ==
  /\ \E c \in OpCalls : OpTakes(c[1], c[2], Invoke(app, c[1], c[2], Env(TRUE, TRUE)))
  /\ UNCHANGED <<exited, now, serverVars>>

\* The background poll is called.
Poll ==
  /\ OpTakes("check_background_load", "", check_background_load(app))
  /\ UNCHANGED <<exited, now, serverVars>>

\* A worker thread finishes between two calls.
Send ==
  /\ WorkerSends
  /\ probe' = Some([call |-> "send", arg |-> "", created |-> <<>>])
  /\ UNCHANGED <<exited, now, serverVars>>

NextOps ==
  \/ Call
  \/ Poll
  \/ Send

SpecOps == Init /\ [][NextOps]_vars

\* ------------------------------------------------------------------ SpecEntry
\* A session whose entry form is opened, filled a character at a time and
\* submitted, one App method call at a time, after its first fetches have
\* come back; a submit that creates the entry starts a fetch.
EntryCalls ==
  {<<call, "">> : call \in {"open_add_entry", "close_add_entry", "form_next_field",
                            "form_prev_field", "form_input_backspace", "submit_entry"}}
  \cup IF app.input_mode = "AddingEntry" THEN {<<"form_input_push", ch>> : ch \in {"1", "x"}} ELSE {}

\* One method of App is called on the entry form.
EntryCall ==
  /\ \E c \in EntryCalls, create_ok \in BOOLEAN :
       OpTakes(c[1], c[2], Invoke(app, c[1], c[2], Env(create_ok, TRUE)))
  /\ UNCHANGED <<exited, now, serverVars>>

NextEntry ==
  \/ EntryCall
  \/ Poll
  \/ Send

SpecEntry == InitForm /\ [][NextEntry]_vars

\* ------------------------------------------------------------------ SpecMinutes
\* An entry form that is complete but for its minutes text, which is any
\* short text of digits, colons and letters, is submitted; the remote create
\* succeeds or fails.
MaxMinutesLen == 4

MinuteChars == {"0", "1", "3", ":", "x"}

MinuteTexts == UNION {[1..n -> MinuteChars] : n \in 0..MaxMinutesLen}

\* The form of st with a description, a project of the session and the
\* minutes text t.
FilledForm(st, t) ==
  [st EXCEPT !.entry_form[1].description = <<"x">>,
             !.entry_form[1].selected_project = Some(ServerProjects[1]),
             !.entry_form[1].project_search = ServerProjects[1].name,
             !.entry_form[1].minutes = t]

InitMinutes ==
  /\ now = MaxDate
  /\ \E t \in MinuteTexts :
       app = FilledForm(open_add_entry(Loaded(Settled(AppNew(DefaultConfig, MaxDate))), MaxDate), t)
  /\ workers = {}
  /\ exited = FALSE
  /\ probe = None
  /\ ServerIdle

\* The session takes the state submit_entry returned.
SubmitTakes(after) ==
  /\ probe' = Some([call |-> "submit_entry", arg |-> "", created |-> after.created])
  /\ app' = Settled(after)
  /\ workers' = workers \cup Started(after)

\* App::submit_entry is called on the form.
SubmitEntry ==
  /\ IsSome(app.entry_form)
  /\ \E create_ok \in BOOLEAN : SubmitTakes(submit_entry(app, create_ok))
  /\ UNCHANGED <<exited, now, serverVars>>

NextMinutes == SubmitEntry

SpecMinutes == InitMinutes /\ [][NextMinutes]_vars

\* ------------------------------------------------------------------ SpecBatch
\* A session that is browsed and polled while its fetches come back, and
\* to which one batch of steps is applied that opens the entry form, sets
\* its four fields in some order and submits it.
FieldOrders == {p \in [1..4 -> 1..4] : \A i, j \in 1..4 : p[i] = p[j] => i = j}

BatchMinutes == <<"2", ":", "1", "5">>

BatchDescription == <<"x">>

\* The four set_entry_field steps for a date d and a project id.
FieldSteps(d, id) ==
  <<SetField("set_entry_field", "minutes", BatchMinutes),
    SetField("set_entry_field", "project_id", FormatInt(id)),
    SetField("set_entry_field", "description", BatchDescription),
    SetField("set_entry_field", "date", FormatDate(d))>>

EntryBatch(d, id, order) ==
  <<Step("open_add_entry")>> \o [i \in 1..4 |-> FieldSteps(d, id)[order[i]]] \o <<Step("submit_entry")>>

\* The session takes the result r of the batch, recorded with the date and
\* the project id the batch carried and the remote creates it made.
BatchTakes(d, id, r) ==
  /\ probe' = Some([call |-> "session.action", arg |-> <<d, id>>, created |-> r.app.created,
                     applied |-> r.applied, ok |-> r.ok])
  /\ app' = Settled(r.app)
  /\ workers' = workers \cup Started(r.app)

\* The step loop of session.action on the batch.
SubmitBatch ==
  /\ app.issued <= MaxFetches
  /\ \E d \in Dates, id \in {ServerProjects[i].id : i \in 1..Len(ServerProjects)},
        order \in FieldOrders, create_ok \in BOOLEAN :
       BatchTakes(d, id, ApplySteps(app, EntryBatch(d, id, order), Env(create_ok, TRUE), 0))
  /\ UNCHANGED <<exited, now, serverVars>>

\* A list method is called between two batches.
Browse ==
  /\ \E call \in {"next_day", "focus_entries", "focus_days", "next_entry"} :
       OpTakes(call, "", Invoke(app, call, "", Env(TRUE, TRUE)))
  /\ UNCHANGED <<exited, now, serverVars>>

NextBatch ==
  \/ SubmitBatch
  \/ Browse
  \/ Poll
  \/ Send

SpecBatch == Init /\ [][NextBatch]_vars

\* ------------------------------------------------------------------ SpecCreate
\* session.create step by step: the new App is made, its bounded wait polls
\* the two first fetches while their workers send or stay silent, and the
\* snapshot is answered.  The server thread keeps running; nothing obliges a
\* worker to send.
WaitBudget == 3

\* A wait that never runs out of time.
WaitNeverExpires(w) == FALSE

\* The wait has used up its timeout.
WaitExpired(w) == w >= WaitBudget

\* A fetch of the App is still outstanding.
Pending(a) == IsSome(a.rx) \/ IsSome(a.rx_projects)

\* tool_session_create makes the session and starts to wait.
CreateBegin ==
  /\ pc = "read"
  /\ state.next_session_id < MaxSessions
  /\ \E view \in {None, Some("none")} :
       request' = Some(ToolCall(Some(1), "vartui.session.create", ToolArgs(None, view, None, None)))
  /\ app' = new_headless(DefaultConfig, now)
  /\ workers' = Started(AppNew(DefaultConfig, now))
  /\ waited' = 0
  /\ frames' = <<>>
  /\ pc' = "wait"
  /\ UNCHANGED <<exited, now, probe, state, stopped, closed, wire>>

\* One round of the wait: a poll, then a pause.
WaitPoll ==
  /\ pc = "wait"
  /\ Pending(app)
  /\ ~WaitExpired(waited)
  /\ app' = check_background_load(app)
  /\ waited' = IF waited < WaitBudget THEN waited + 1 ELSE waited
  /\ UNCHANGED <<workers, exited, now, probe, state, request, frames, stopped, closed, pc, wire>>

\* The wait is over: the session is stored and its snapshot answered.
WaitDone ==
  /\ pc = "wait"
  /\ ~Pending(app) \/ WaitExpired(waited)
  /\ \E st \in {create_session(state, EnvOf(now, TRUE, TRUE))} :
     \E t \in {Created(st, state.next_session_id + 1, app,
                        parse_response_options(Unwrap(request).params.args, "Tiny").view)} :
     \E outcome \in {ToolResponse(Unwrap(Unwrap(request).id), t)} :
       Handled(outcome)
  /\ pc' = "read"
  /\ UNCHANGED <<sessionVars, probe, request, wire, waited>>

\* A worker of the session being created sends its result.
WaitSend ==
  /\ pc = "wait"
  /\ WorkerFinish

NextCreate ==
  \/ CreateBegin
  \/ WaitPoll
  \/ WaitDone
  \/ WaitSend

SpecCreate == InitServer /\ [][NextCreate]_vars /\ WF_vars(WaitPoll) /\ WF_vars(WaitDone)

\* ------------------------------------------------------------------ SpecSnap
\* session.snapshot with view full on a session that is browsed and polled
\* while its fetches come back.  A limit argument is a JSON value: absent, a
\* number, a string or something else.
NumLimit(n) == Some([kind |-> "number", n |-> n, text |-> <<>>])

TextLimit(t) == Some([kind |-> "string", n |-> 0, text |-> t])

LimitRaws ==
  {None, Some([kind |-> "bool", n |-> 0, text |-> <<>>]),
   NumLimit(0), NumLimit(1), NumLimit(2), NumLimit(MaxEntriesCap + 100),
   TextLimit(<<"1">>), TextLimit(<<" ", "2">>), TextLimit(<<"x">>)}

\* mcp.rs parse_limit
parse_limit(raw, default, max) ==
  IF ~IsSome(raw) THEN [ok |-> TRUE, n |-> default]
  ELSE LET r == Unwrap(raw)
           value == IF r.kind = "number" THEN Some(r.n)
                    ELSE IF r.kind = "string" THEN ParseUsize(Trim(r.text))
                    ELSE None
       IN IF ~IsSome(value) THEN [ok |-> FALSE, n |-> 0]
          ELSE IF Unwrap(value) = 0 THEN [ok |-> FALSE, n |-> 0]
          ELSE [ok |-> TRUE, n |-> Min(Unwrap(value), max)]

\* The session takes the poll of a snapshot call and the call leaves its
\* answer: the limits it was given and the snapshot, if it made one.
SnapTakes(md, me, polled, s) ==
  /\ Within(polled)
  /\ probe' = Some([call |-> "session.snapshot", arg |-> <<md, me>>, created |-> <<>>, s |-> s])
  /\ app' = Settled(polled)
  /\ workers' = workers \cup Started(polled)

\* tool_session_snapshot with view full.
FullSnapshot ==
  /\ \E md \in LimitRaws, me \in LimitRaws :
       LET max_days == parse_limit(md, DefaultMaxDays, MaxDaysCap)
           max_entries == parse_limit(me, DefaultMaxEntries, MaxEntriesCap)
       IN IF max_days.ok /\ max_entries.ok
          THEN \E polled \in {check_background_load(app)} :
                 SnapTakes(md, me, polled, Some(build_full_snapshot(1, polled, max_days.n, max_entries.n)))
          ELSE SnapTakes(md, me, app, None)
  /\ UNCHANGED <<exited, now, serverVars>>

NextSnap ==
  \/ FullSnapshot
  \/ Browse
  \/ Send

SpecSnap == Init /\ [][NextSnap]_vars

\* ------------------------------------------------------------------ SpecSecret
\* A session whose configuration form is opened and whose token field is
\* typed into and erased, with snapshots of every view taken in between.
MaxToken == 6

SecretChars == {"a", "b"}

SnapshotViews == {"Tiny", "Normal", "Full"}

\* The session takes the state a configuration call returned.
SecretTakes(call, arg, after) ==
  /\ probe' = Some([call |-> call, arg |-> arg, created |-> <<>>, s |-> None])
  /\ app' = after
  /\ UNCHANGED <<workers, exited, now, serverVars>>

\* F2 or open_config: the form opens on the effective token.
OpenConfig ==
  /\ ~IsSome(app.config_form)
  /\ SecretTakes("open_config", "", open_config(app, EnvVars))

\* Esc or close_config.
CloseConfig ==
  /\ IsSome(app.config_form)
  /\ SecretTakes("close_config", "", close_config(app))

\* A character typed into the token field.
TypeToken ==
  /\ IsSome(app.config_form)
  /\ Unwrap(app.config_form).focused = "Token"
  /\ Len(Unwrap(app.config_form).token) < MaxToken
  /\ \E ch \in SecretChars : SecretTakes("config_input", ch, config_input(app, ch))

\* Backspace in the token field.
EraseToken ==
  /\ IsSome(app.config_form)
  /\ Unwrap(app.config_form).focused = "Token"
  /\ SecretTakes("config_backspace", "", config_backspace(app))

\* tool_session_snapshot with each view.
SecretSnapshot ==
  /\ \E view \in SnapshotViews :
       \E polled \in {check_background_load(app)} :
         /\ probe' = Some([call |-> "session.snapshot", arg |-> view, created |-> <<>>,
                           s |-> build_snapshot(1, polled, view)])
         /\ app' = polled
  /\ UNCHANGED <<workers, exited, now, serverVars>>

NextSecret ==
  \/ OpenConfig
  \/ CloseConfig
  \/ TypeToken
  \/ EraseToken
  \/ SecretSnapshot

SpecSecret == InitForm /\ [][NextSecret]_vars

\* ------------------------------------------------------------------ SpecCreds
\* The token and the base URL that a remote call is made with, for each
\* combination of a saved configuration and of the environment variables.
\* The base URL loses one trailing '/'.
StripSlash(url) == IF Len(url) > 0 /\ url[Len(url)] = "/" THEN Pop(url) ELSE url

\* VAR_TOKEN read from the environment: quotes removed, trimmed.
EnvToken(envv) == IF IsSome(envv.token) THEN Trim(StripQuotes(Unwrap(envv.token))) ELSE <<>>

\* VAR_BASE_URL read from the environment, API_BASE when unset or blank.
EnvBaseUrl(envv) ==
  IF IsSome(envv.base_url) /\ Len(Trim(StripQuotes(Unwrap(envv.base_url)))) > 0
  THEN Trim(StripQuotes(Unwrap(envv.base_url)))
  ELSE API_BASE

\* App::spawn_load and App::spawn_load_projects: the client the worker builds.
SpawnCredentials(config, envv) ==
  [token |-> IF Len(config.var_token) > 0 THEN config.var_token ELSE EnvToken(envv),
   base_url |-> StripSlash(IF Len(config.base_url) > 0 /\ config.base_url # API_BASE
                           THEN config.base_url ELSE EnvBaseUrl(envv))]

\* App::submit_entry: the client the remote create is called on.
SubmitCredentials(config, envv) ==
  [token |-> EnvToken(envv), base_url |-> StripSlash(EnvBaseUrl(envv))]

CredConfigs ==
  {[DefaultConfig EXCEPT !.var_token = t, !.base_url = u] :
     t \in {<<>>, <<"t">>}, u \in {<<>>, API_BASE, <<"u">>, <<"u", "/">>}}

CredEnvs ==
  {[token |-> t, base_url |-> u] :
     t \in {None, Some(<<"e">>), Some(<<"\"", "e", "\"", " ">>)},
     u \in {None, Some(<<" ">>), Some(<<"v">>), Some(<<"v", "/">>)}}

InitCreds ==
  /\ now = MaxDate
  /\ \E config \in CredConfigs : app = [Loaded(Settled(AppNew(DefaultConfig, MaxDate))) EXCEPT !.config = config]
  /\ workers = {}
  /\ exited = FALSE
  /\ \E envv \in CredEnvs : probe = Some([call |-> "start", arg |-> envv, created |-> <<>>, with |-> None])
  /\ ServerIdle

\* A remote call is about to be made: the credentials it resolved.
Resolves(call, creds) ==
  /\ probe' = Some([call |-> call, arg |-> Unwrap(probe).arg, created |-> <<>>, with |-> Some(creds)])
  /\ UNCHANGED <<app, workers, exited, now, serverVars>>

\* submit_entry reaches its remote create on a form that passes validation.
SubmitResolves ==
  /\ IsSome(probe)
  /\ Resolves("submit_entry", SubmitCredentials(app.config, Unwrap(probe).arg))

\* refresh, a range submit or New spawns a fetch.
SpawnResolves ==
  /\ IsSome(probe)
  /\ Resolves("spawn_load", SpawnCredentials(app.config, Unwrap(probe).arg))

NextCreds ==
  \/ SubmitResolves
  \/ SpawnResolves

SpecCreds == InitCreds /\ [][NextCreds]_vars

\* ------------------------------------------------------------------ SpecFilter
\* The project search of an entry form typed into and erased, over project
\* lists shorter and longer than what the filter lists.
MaxSearch == 2

SearchChars == {"a", "A", "b"}

\* n projects whose names go round the given names.
ProjectList(n, names) ==
  [i \in 1..n |-> [id |-> i, name |-> names[((i - 1) % Len(names)) + 1], client_name |-> <<"c">>]]

ProjectLists ==
  {ProjectList(n, names) :
     n \in {0, 1, 2, FilterCap, FilterCap + 1, 2 * FilterCap + 5},
     names \in {<<<<"a">>>>, <<<<"b">>, <<"A", "b">>, <<"a">>>>, <<<<"b", "a">>, <<"B">>>>}}

\* The session before its form is opened: the project list is there, or the
\* worker has sent it and no poll has taken it yet.
InitFilter ==
  /\ now = MaxDate
  /\ \E projects \in ProjectLists, polled \in BOOLEAN :
       app = IF polled
             THEN [Loaded(Settled(AppNew(DefaultConfig, MaxDate))) EXCEPT !.projects = projects]
             ELSE [Loaded(Settled(AppNew(DefaultConfig, MaxDate)))
                     EXCEPT !.projects = <<>>,
                            !.rx_projects = Some([state |-> "ready", ok |-> TRUE, projects |-> projects])]
  /\ workers = {}
  /\ exited = FALSE
  /\ probe = None
  /\ ServerIdle

\* The session takes the state a call returned.
FilterTakes(call, arg, after) ==
  /\ probe' = Some([call |-> call, arg |-> arg, created |-> <<>>])
  /\ app' = after
  /\ UNCHANGED <<workers, exited, now, serverVars>>

\* The entry form is opened.
OpenForm ==
  /\ ~IsSome(app.entry_form)
  /\ FilterTakes("open_add_entry", "", open_add_entry(app, now))

\* Tab from the date field to the project field.
FocusProject ==
  /\ IsSome(app.entry_form)
  /\ Unwrap(app.entry_form).focused = "Date"
  /\ FilterTakes("form_next_field", "", form_next_field(app))

\* A character typed into the project field.
TypeSearch ==
  /\ IsSome(app.entry_form)
  /\ Unwrap(app.entry_form).focused = "ProjectId"
  /\ Len(Unwrap(app.entry_form).project_search) < MaxSearch
  /\ \E ch \in SearchChars : FilterTakes("form_input_push", ch, form_input_push(app, ch))

\* Backspace in the project field.
EraseSearch ==
  /\ IsSome(app.entry_form)
  /\ Unwrap(app.entry_form).focused = "ProjectId"
  /\ Len(Unwrap(app.entry_form).project_search) > 0
  /\ FilterTakes("form_input_backspace", "", form_input_backspace(app))

\* The poll takes the project list the worker sent.
ProjectsArrive ==
  /\ IsSome(app.rx_projects)
  /\ FilterTakes("check_background_load", "", check_background_load(app))

NextFilter ==
  \/ OpenForm
  \/ FocusProject
  \/ TypeSearch
  \/ EraseSearch
  \/ ProjectsArrive

SpecFilter == InitFilter /\ [][NextFilter]_vars

\* ------------------------------------------------------------------ SpecRange
\* parse_date_range put to a text on a given day, and then to the label of
\* the range it returned.
Spaced(t) == {t, <<" ">> \o t, t \o <<" ">>}

RangeInputs ==
  UNION {{a \o <<".", ".">> \o b : a \in Spaced(FormatDate(d)), b \in Spaced(FormatDate(e))} : d \in Dates, e \in Dates}
  \cup {<<"A", "U", "T", "O">>, <<"a", "u", "t", "o">>, <<" ", "A", "u", "t", "o", " ">>, <<"W">>, <<"W", " ">>}
  \cup {<<>>, <<"1">>, <<"1", ".">>, <<"1", ".", ".">>, <<".", ".", "1">>, <<"1", ".", ".", ".", "2">>,
         <<"1", ".", ".", "2", ".", ".", "3">>, <<"x", ".", ".", "1">>, <<"1", ".", ".", "x">>}

RangeCall(call, arg, r, from) == Some([call |-> call, arg |-> arg, created |-> <<>>, r |-> r, from |-> from])

InitRange ==
  /\ now \in Dates
  /\ app = Loaded(Settled(AppNew(DefaultConfig, MaxDate)))
  /\ workers = {}
  /\ exited = FALSE
  /\ \E input \in RangeInputs : probe = RangeCall("start", input, None, None)
  /\ ServerIdle

\* parse_date_range of the text.
ParseRange ==
  /\ Unwrap(probe).call = "start"
  /\ probe' = RangeCall("parse_date_range", Unwrap(probe).arg, Some(parse_date_range(Unwrap(probe).arg, now)), None)
  /\ UNCHANGED <<app, workers, exited, now, serverVars>>

\* parse_date_range of the label of the range that was returned.
ParseLabel ==
  /\ Unwrap(probe).call = "parse_date_range"
  /\ Unwrap(Unwrap(probe).r).ok
  /\ LET range == Unwrap(Unwrap(probe).r).range
     IN probe' = RangeCall("label", label(range), Some(parse_date_range(label(range), now)), Some(range))
  /\ UNCHANGED <<app, workers, exited, now, serverVars>>

\* The day changes between two calls.
Midnight ==
  /\ now < MaxDate
  /\ now' = now + 1
  /\ UNCHANGED <<app, workers, exited, probe, serverVars>>

NextRange ==
  \/ ParseRange
  \/ ParseLabel
  \/ Midnight

SpecRange == InitRange /\ [][NextRange]_vars

\* ------------------------------------------------------------------ SpecPoll
\* The foreground loop polls for ever while the session is browsed and
\* refreshed; every worker thread ends, by sending its result or by dying
\* with the sender of its channel.
\* The worker thread w ends without a send: its sender is dropped.
disconnect(a, w) ==
  IF w.kind = "days"
  THEN IF IsSome(a.rx) /\ Unwrap(a.rx).fid = w.fid /\ Unwrap(a.rx).state = "empty"
       THEN [a EXCEPT !.rx[1].state = "closed"] ELSE a
  ELSE IF IsSome(a.rx_projects) /\ Unwrap(a.rx_projects).state = "empty"
       THEN [a EXCEPT !.rx_projects[1].state = "closed"] ELSE a

\* refresh is called.
Refresh ==
  /\ \E after \in {refresh(app)} : OpTakes("refresh", "", after)
  /\ UNCHANGED <<exited, now, serverVars>>

\* One round of the foreground loop: the poll.
LoopPoll ==
  /\ \E after \in {check_background_load(app)} : OpTakes("check_background_load", "", after)
  /\ UNCHANGED <<exited, now, serverVars>>

\* A worker thread dies before its send.
WorkerDies ==
  /\ \E w \in workers :
       /\ workers' = workers \ {w}
       /\ app' = disconnect(app, w)
  /\ probe' = Some([call |-> "died", arg |-> "", created |-> <<>>])
  /\ UNCHANGED <<exited, now, serverVars>>

\* A worker thread ends.
WorkerEnds ==
  \/ Send
  \/ WorkerDies

NextPoll ==
  \/ Refresh
  \/ Browse
  \/ LoopPoll
  \/ WorkerEnds

SpecPoll == Init /\ [][NextPoll]_vars /\ WF_vars(LoopPoll) /\ WF_vars(WorkerEnds)

\* ------------------------------------------------------------------ SpecConfig
\* A configuration form filled with texts that are blank, padded, a range
\* or no range, saved with either outcome of the persistence, on a session
\* whose first fetches are outstanding or polled.
ConfigTokens == {<<>>, <<" ", "t", " ">>}

ConfigUrls == {API_BASE, <<"u", " ">>}

ConfigRanges ==
  {<<>>, <<" ">>, <<"1", ".", ".", "2">>, <<" ", "2", ".", ".", "2", " ">>, <<"3", ".", ".", "1">>,
   <<"x">>, <<"a", "u", "t", "o">>, <<"1", ".", ".">>}

\* The form of st as the fields were typed.
FilledConfig(st, token, base_url, default_range) ==
  [st EXCEPT !.config_form[1].token = token,
             !.config_form[1].base_url = base_url,
             !.config_form[1].default_range = default_range]

InitConfig ==
  /\ now = MaxDate
  /\ \E polled \in BOOLEAN, token \in ConfigTokens, base_url \in ConfigUrls, default_range \in ConfigRanges :
       /\ app = FilledConfig(open_config(IF polled THEN Loaded(Settled(AppNew(DefaultConfig, MaxDate)))
                                         ELSE Settled(AppNew(DefaultConfig, MaxDate)), EnvVars),
                             token, base_url, default_range)
       /\ workers = IF polled THEN {} ELSE Started(AppNew(DefaultConfig, MaxDate))
  /\ exited = FALSE
  /\ probe = None
  /\ ServerIdle

\* The session takes the state a call returned.
ConfigTakes(call, arg, after) ==
  /\ after.issued <= MaxFetches + 1
  /\ probe' = Some([call |-> call, arg |-> arg, created |-> after.created])
  /\ app' = Settled(after)
  /\ workers' = workers \cup Started(after)
  /\ UNCHANGED <<exited, now, serverVars>>

\* Enter in the form, or save_config: the persistence succeeds or fails.
SaveConfig ==
  /\ IsSome(app.config_form)
  /\ \E save_ok \in BOOLEAN :
       \E after \in {save_config_form(app, now, save_ok)} : ConfigTakes("save_config_form", save_ok, after)

\* The foreground poll.
ConfigPoll ==
  \E after \in {check_background_load(app)} : ConfigTakes("check_background_load", "", after)

NextConfig ==
  \/ SaveConfig
  \/ ConfigPoll
  \/ Send

SpecConfig == InitConfig /\ [][NextConfig]_vars

\* ------------------------------------------------------------------ duplicating an entry
\* The session with fetched entries of a whole count of minutes, the
\* duplicate action, and what can be typed and submitted in the form after.
MinMinutes == 48

MaxMinutes == 63

DuplicateChars == {"1"}

\* The minutes the server holds for a fetched entry.
EntryMinutes(entry) == CHOOSE m \in 0..MaxMinutes : HoursOf(m) = entry.hours

\* The day list with every entry lasting m minutes.
WithMinutes(days, m) ==
  [i \in DOMAIN days |->
     [days[i] EXCEPT !.entries = [j \in DOMAIN days[i].entries |->
                                    [days[i].entries[j] EXCEPT !.hours = HoursOf(m)]]]]

InitDuplicate ==
  /\ now = MaxDate
  /\ \E m \in MinMinutes..MaxMinutes :
       app = [Loaded(Settled(AppNew(DefaultConfig, MaxDate))) EXCEPT !.days = WithMinutes(@, m)]
  /\ workers = {}
  /\ exited = FALSE
  /\ probe = None
  /\ ServerIdle

\* The session takes the state a call returned.
DuplicateTakes(call, arg, after) ==
  /\ after.issued <= MaxFetches + 1
  /\ probe' = Some([call |-> call, arg |-> arg, created |-> after.created])
  /\ app' = Settled(after)
  /\ workers' = workers \cup Started(after)
  /\ UNCHANGED <<exited, now, serverVars>>

\* Tab between the day list and the entry list.
DuplicateFocus ==
  /\ ~IsSome(app.entry_form)
  /\ \/ app.focus = "Days" /\ DuplicateTakes("focus_entries", "", focus_entries(app))
     \/ app.focus = "Entries" /\ DuplicateTakes("focus_days", "", focus_days(app))

\* The d key, or the duplicate action of a session.
Duplicate ==
  /\ ~IsSome(app.entry_form)
  /\ DuplicateTakes("open_duplicate_entry", "", open_duplicate_entry(app))

\* A character typed into the description or the project field, a
\* backspace in the focused field, Enter, or Tab.
DuplicateType ==
  /\ IsSome(app.entry_form)
  /\ \/ \E ch \in DuplicateChars :
          \E after \in {form_input_push(app, ch)} :
            /\ Len(Unwrap(after.entry_form).description) <= 1
            /\ Len(Unwrap(after.entry_form).minutes) <= 5
            /\ Len(Unwrap(after.entry_form).date) <= 1
            /\ Len(Unwrap(after.entry_form).project_search) <= 1
            /\ DuplicateTakes("form_input_push", ch, after)
     \/ /\ Unwrap(app.entry_form).focused \in {"Description", "ProjectId"}
        /\ DuplicateTakes("form_input_backspace", "", form_input_backspace(app))
     \/ \E create_ok \in BOOLEAN :
          \E after \in {form_enter(app, create_ok)} : DuplicateTakes("form_enter", create_ok, after)
     \/ DuplicateTakes("form_next_field", "", form_next_field(app))

\* The form is submitted and the remote create succeeds or fails, or the
\* form is closed.
DuplicateSubmit ==
  /\ IsSome(app.entry_form)
  /\ \/ \E create_ok \in BOOLEAN :
          \E after \in {submit_entry(app, create_ok)} : DuplicateTakes("submit_entry", create_ok, after)
     \/ DuplicateTakes("close_add_entry", "", close_add_entry(app))

NextDuplicate ==
  \/ DuplicateFocus
  \/ Duplicate
  \/ DuplicateType
  \/ DuplicateSubmit
  \/ Send

SpecDuplicate == InitDuplicate /\ [][NextDuplicate]_vars

\* ------------------------------------------------------------------ key names
\* One session of the server put to session.key calls and to send_key steps
\* whose key names and texts are supported or not.
KeyNames ==
  {<<"text">>, <<"char:">>, <<"char:", "j">>, <<"char:", "char:", "f">>, <<"char:", "char:">>,
   <<"ctrl+c">>, <<"esc">>, <<"zz">>, <<"J">>, <<"text", "j">>, <<>>}

KeyTexts == {None, Some(<<>>), Some(<<"f", "1">>), Some(<<"l", "r">>)}

InitNames ==
  /\ now = MaxDate
  /\ app = Settled(AppNew(DefaultConfig, MaxDate))
  /\ workers = {}
  /\ exited = FALSE
  /\ probe = None
  /\ ServerIdle

\* The server takes what a tool returned for a call with a key and a text.
NameTakes(call, key, text, t) ==
  /\ t.st.next_session_id <= MaxSessions
  /\ \A s \in DOMAIN t.st.sessions : Within(t.st.sessions[s])
  /\ probe' = Some([call |-> call, arg |-> "", created |-> <<>>, key |-> key, text |-> text, ok |-> t.ok])
  /\ state' = t.st
  /\ closed' = closed \cup (DOMAIN state.sessions \ DOMAIN t.st.sessions)
  /\ UNCHANGED <<sessionVars, request, frames, stopped, pc, wire, waited>>

\* session.create
NameCreate ==
  /\ DOMAIN state.sessions = {}
  /\ \E t \in {tool_session_create(ToolArgs(None, None, None, None), state, EnvOf(MaxDate, TRUE, TRUE), TRUE)} :
       NameTakes("session.create", <<>>, None, t)

\* session.key with a key name and a text.
NameKey ==
  \E sid \in DOMAIN state.sessions, key \in KeyNames, text \in KeyTexts :
    \E t \in {tool_session_key(TextArgs(Some(sid), Some(key), text), state, EnvOf(MaxDate, TRUE, TRUE))} :
      NameTakes("session.key", key, text, t)

\* session.action with one send_key step.
NameStep ==
  \E sid \in DOMAIN state.sessions, key \in KeyNames, text \in KeyTexts :
    \E t \in {tool_session_action(
                 ToolArgs(Some(sid), None, None, Some(<<<<"send_key", Args(None, None, None, Some(key), text)>>>>)),
                 state, EnvOf(MaxDate, TRUE, TRUE))} :
      NameTakes("send_key", key, text, t)

\* A worker of a session sends, recorded as a step of its own.
NameWorker ==
  /\ SessionWorkerSends
  /\ probe' = Some([call |-> "send", arg |-> "", created |-> <<>>, key |-> <<>>, text |-> None, ok |-> TRUE])
  /\ UNCHANGED <<sessionVars, request, frames, stopped, closed, pc, wire, waited>>

NextNames ==
  \/ NameCreate
  \/ NameKey
  \/ NameStep
  \/ NameWorker

SpecNames == InitNames /\ [][NextNames]_vars

\* ------------------------------------------------------------------ signed numbers
\* The entry form with a project typed as a number, or picked from the
\* list, and a minutes text, both over digits, signs and the colon, then
\* submitted.
MaxSigned == 3

SignedChars == {"-", "0", "1", ":"}

SignedTexts == UNION {[1..n -> SignedChars] : n \in 0..MaxSigned}

\* The form of st with a description, the project search text p, the
\* project picked from the list if any, and the minutes text t.
SignedForm(st, p, picked, t) ==
  [st EXCEPT !.entry_form[1].description = <<"x">>,
             !.entry_form[1].selected_project = picked,
             !.entry_form[1].project_search = p,
             !.entry_form[1].minutes = t]

InitSigned ==
  /\ now = MaxDate
  /\ \E st \in {open_add_entry(Loaded(Settled(AppNew(DefaultConfig, MaxDate))), MaxDate)} :
       \E p \in SignedTexts, t \in SignedTexts, picked \in {None, Some(ServerProjects[1])} :
         app = SignedForm(st, p, picked, t)
  /\ workers = {}
  /\ exited = FALSE
  /\ probe = None
  /\ ServerIdle

\* submit_entry, or Enter on the last field, with a remote create that
\* succeeds or fails.
SubmitSigned ==
  /\ IsSome(app.entry_form)
  /\ \E create_ok \in BOOLEAN : SubmitTakes(submit_entry(app, create_ok))
  /\ UNCHANGED <<exited, now, serverVars>>

NextSigned ==
  \/ SubmitSigned
  \/ Send

SpecSigned == InitSigned /\ [][NextSigned]_vars

\* ------------------------------------------------------------------ failing batches
\* One session of the server put to session.action batches, some of which
\* hold a step that fails, an item that is no object, or an object without
\* an action name.
StepBatches ==
  {<<Step("oa"), Step("bogus"), Step("ca")>>,
   <<Step("fe"), Step("ne"), SetField("set_entry_field", "date", <<"1">>), Step("bogus")>>,
   <<Step("next_day"), <<"set_entry_field", NoArgs>>, Step("ca")>>,
   <<Step("bogus"), Step("next_day")>>,
   <<Step("next_day"), NotAnObject>>,
   <<Step("oa"), Nameless(NoArgs), Step("ca")>>,
   <<Step("next_day")>>,
   <<Step("oa"), Step("ca")>>,
   <<Step("ca")>>}

\* The server takes what a tool returned for a call with a batch of steps.
StepTakes(call, sid, steps, t) ==
  /\ t.st.next_session_id <= MaxSessions
  /\ \A s \in DOMAIN t.st.sessions : Within(t.st.sessions[s])
  /\ probe' = Some([call |-> call, arg |-> "", created |-> <<>>, sid |-> sid, steps |-> steps,
                     ok |-> t.ok, content |-> t.content])
  /\ state' = t.st
  /\ closed' = closed \cup (DOMAIN state.sessions \ DOMAIN t.st.sessions)
  /\ UNCHANGED <<sessionVars, request, frames, stopped, pc, wire, waited>>

\* session.create ; the first fetches come back within its wait or not.
StepCreate ==
  /\ DOMAIN state.sessions = {}
  /\ \E arrived \in BOOLEAN :
       \E t \in {tool_session_create(ToolArgs(None, None, None, None), state, EnvOf(MaxDate, TRUE, TRUE),
                                      arrived)} :
         StepTakes("session.create", 0, <<>>, t)

\* session.action with a batch, for a session of the server or for none.
StepBatch ==
  \E sid \in SessionIds, steps \in StepBatches :
    \E t \in {tool_session_action(ToolArgs(Some(sid), None, None, Some(steps)), state,
                                   EnvOf(MaxDate, TRUE, TRUE))} :
      StepTakes("session.action", sid, steps, t)

\* A worker of a session sends.
StepWorker ==
  /\ SessionWorkerSends
  /\ probe' = Some([call |-> "send", arg |-> "", created |-> <<>>, sid |-> 0, steps |-> <<>>,
                     ok |-> TRUE, content |-> NoContent])
  /\ UNCHANGED <<sessionVars, request, frames, stopped, closed, pc, wire, waited>>

NextSteps ==
  \/ StepCreate
  \/ StepBatch
  \/ StepWorker

SpecSteps == InitNames /\ [][NextSteps]_vars

\* ------------------------------------------------------------------ claims
\* C1: in every reachable state of a session the day selection index is
\* absent exactly when the day list is empty, and otherwise lies in
\* [0, len(days)).
C1_DaySelectionTracksDayList ==
  /\ (app.day_state = None) <=> (Len(app.days) = 0)
  /\ IsSome(app.day_state) => Unwrap(app.day_state) \in 0..(Len(app.days) - 1)

\* A fetch came back with an error and was polled: the list is empty and
\* nothing is selected.
C1_Witness_EmptiedByFetch ==
  /\ app.applied > 0
  /\ Len(app.days) = 0
  /\ app.day_state = None
  /\ app.status = Status("fetch error", 0)

\* C2: when a day-range fetch is issued while an earlier one is outstanding,
\* the earlier result is never applied: no poll has applied a result other
\* than that of the fetch most recently issued at the time of the poll, and
\* the receiver the App holds is always the one of the latest fetch.
C2_OnlyLatestFetchApplied ==
  /\ ~app.stale_applied
  /\ app.applied <= app.issued
  /\ IsSome(app.rx) => Unwrap(app.rx).fid = app.issued

\* The first fetch was superseded, its worker's send was lost, and the
\* result of the second fetch was applied.
C2_Witness_SupersededResultLost ==
  /\ 1 \in app.lost
  /\ app.issued = 2
  /\ app.applied = 2

\* C3: in every reachable state an EntryForm exists exactly when the mode is
\* AddingEntry and a ConfigForm exists exactly when the mode is Configuring.
C3_FormsMatchMode ==
  /\ IsSome(app.entry_form) <=> app.input_mode = "AddingEntry"
  /\ IsSome(app.config_form) <=> app.input_mode = "Configuring"

\* C4: in every reachable state where selected_project is present,
\* project_search equals that project's name.
C4_SelectedProjectMatchesSearch ==
  (IsSome(app.entry_form) /\ IsSome(Unwrap(app.entry_form).selected_project)) =>
    Unwrap(app.entry_form).project_search = Unwrap(Unwrap(app.entry_form).selected_project).name

\* C5: for every mode, key code and modifier set, the terminal loop makes
\* the same method call and the same exit decision as handle_key, and so
\* leaves the same state.
C5_TerminalLoopMatchesDispatcher ==
  IsSome(probe) =>
    /\ Unwrap(probe).run_app = Unwrap(probe).handle_key
    /\ Unwrap(probe).after_run_app = Unwrap(probe).after

IsCtrlC(k) == k.code = "Char" /\ k.ch = "c" /\ "CONTROL" \in k.mods

IsQ(k) == k.code = "Char" /\ k.ch = "q"

\* The App methods a dispatcher may call.
Methods ==
  {"cancel_input", "submit_input", "input_backspace", "input_push", "close_add_entry",
   "form_prev_field", "form_next_field", "form_enter", "form_nav_up", "form_nav_down",
   "form_input_backspace", "form_input_push", "close_config", "config_prev_field",
   "config_next_field", "config_theme_previous", "config_theme_next", "save_config_form",
   "config_backspace", "config_clear_field", "config_reset_defaults", "config_input",
   "next_entry", "next_day", "previous_entry", "previous_day", "focus_entries", "focus_days",
   "open_duplicate_entry", "refresh", "start_input", "open_add_entry", "open_config"}

\* C6 as stated: handle_key returns true only for Ctrl+C, which mutates
\* nothing; every other key returns false with at most one method call.
C6_ExitOnlyOnCtrlC ==
  IsSome(probe) =>
    LET p == Unwrap(probe)
    IN /\ p.handle_key.exit <=> IsCtrlC(p.key)
       /\ p.handle_key.exit => (p.handle_key.call = "none" /\ p.after = p.before)
       /\ p.handle_key.call \in Methods \cup {"none"}

\* C6, amended: handle_key returns true exactly for Ctrl+C in any mode and
\* for the character q in Normal mode; a key that exits calls no method and
\* mutates nothing; every other key returns false and makes zero or one
\* method call, zero leaving the state as it was.
C6_ExitOnCtrlCOrNormalQ ==
  IsSome(probe) =>
    LET p == Unwrap(probe)
    IN /\ p.handle_key.exit <=> (IsCtrlC(p.key) \/ (p.mode = "Normal" /\ IsQ(p.key)))
       /\ p.handle_key.exit => (p.handle_key.call = "none" /\ p.after = p.before)
       /\ p.handle_key.call \in Methods \cup {"none"}
       /\ p.handle_key.call = "none" => p.after = p.before

\* Ctrl+C was pressed while a form was open: exit, nothing called, nothing
\* changed.
C6_Witness_CtrlCInForm ==
  /\ IsSome(probe)
  /\ IsCtrlC(Unwrap(probe).key)
  /\ Unwrap(probe).mode = "Configuring"
  /\ Unwrap(probe).handle_key.exit
  /\ Unwrap(probe).after = Unwrap(probe).before

\* The step in which the server handles the request it read.
Handling == pc = "handle" /\ pc' = "loop"

\* A tools/call that is run (it has an id) for the named tool with a session id.
IsCall(req, tools) ==
  /\ req.method = "tools/call"
  /\ IsSome(req.id)
  /\ req.params.name \in tools
  /\ IsSome(req.params.args.sid)

Addressed(req) == Unwrap(req.params.args.sid)

\* The arguments that are parsed before the session is looked up are valid.
WellFormed(req) ==
  /\ parse_response_options(req.params.args, "Tiny").ok
  /\ req.params.name = "vartui.session.key" =>
       IsSome(req.params.args.key) /\ parse_key_sequence(Unwrap(req.params.args.key), None).ok
  /\ req.params.name = "vartui.session.action" => parse_action_steps(req.params.args).ok

\* The one frame written is a session-not-found error result.
IsNotFound(fs) ==
  /\ Len(fs) = 1
  /\ fs[1].kind = "result"
  /\ fs[1].result.isError
  /\ fs[1].result.m = NotFound

SessionTools == {"vartui.session.snapshot", "vartui.session.key", "vartui.session.action"}

C9_OtherSessionsUntouched ==
  [][Handling =>
       LET req == Unwrap(request)
       IN IsCall(req, SessionTools \cup {"vartui.session.close"}) =>
            \A t \in DOMAIN state.sessions \ {Addressed(req)} :
              /\ t \in DOMAIN state'.sessions
              /\ state'.sessions[t] = state.sessions[t]]_vars

\* A step was applied to one of two sessions, which now differ.
C9_Witness_OneOfTwoChanged ==
  /\ pc = "loop"
  /\ IsCall(Unwrap(request), {"vartui.session.action"})
  /\ Len(frames) = 1
  /\ ~frames[1].result.isError
  /\ \E s, t \in DOMAIN state.sessions :
       /\ s = Addressed(Unwrap(request))
       /\ t # s
       /\ state.sessions[s].day_state # state.sessions[t].day_state
       /\ state.sessions[s].days = state.sessions[t].days

\* C10: a request without an id gets no response frame; a request with an
\* id gets exactly one, carrying that id, except notifications/initialized
\* and exit, which get none.
C10_OneResponsePerRequestWithId ==
  pc = "loop" =>
    IF ~IsSome(Unwrap(request).id) \/ Unwrap(request).method \in {"notifications/initialized", "exit"}
    THEN frames = <<>>
    ELSE Len(frames) = 1 /\ frames[1].id = Unwrap(Unwrap(request).id)

\* A tools/call with id 2 on a missing session was answered with one frame
\* carrying id 2.
C10_Witness_ToolCallAnswered ==
  /\ pc = "loop"
  /\ Unwrap(request).method = "tools/call"
  /\ Unwrap(request).id = Some(2)
  /\ Len(frames) = 1
  /\ frames[1].id = 2

\* C11: a frame with a missing or malformed Content-Length header, a
\* truncated body or a body that is not valid UTF-8 does not stop the
\* server: the server stops only on the end of its input or on the exit
\* method.
C11_FramingErrorsDoNotStop ==
  /\ (IsSome(wire) /\ IsSome(Unwrap(wire).input) /\ ~Unwrap(wire).read.ok) => ~stopped
  /\ stopped => \/ IsSome(wire) /\ ~IsSome(Unwrap(wire).input)
                \/ IsSome(request) /\ Unwrap(request).method = "exit"

\* The errors a tools/call can be told to raise by its request alone: params
\* that are no object, an unknown tool, a missing or ill-typed field, an
\* unsupported key, an empty step list, a session that is not in the map.
RaisesError(req, st) ==
  \/ req.params.name = ""
  \/ req.params.name \notin SessionTools \cup {"vartui.session.create", "vartui.session.close"}
  \/ req.params.name # "vartui.session.create" /\ ~IsSome(req.params.args.sid)
  \/ req.params.name # "vartui.session.close" /\ ~WellFormed(req)
  \/ req.params.name \in SessionTools /\ Addressed(req) \notin DOMAIN st.sessions

\* The one frame written is a success result whose payload is the error
\* payload {e: "er", m: message} marked isError.
IsToolError(fs) ==
  /\ Len(fs) = 1
  /\ fs[1].kind = "result"
  /\ fs[1].result.isError
  /\ fs[1].result.content.e = "er"
  /\ fs[1].result.m # ""

\* C12: every tools/call that carries an id is answered with one JSON-RPC
\* success result, never an error object; when handling it raises an error
\* (params that are no object, unknown tool, missing or ill-typed field,
\* unknown action, unsupported key, missing session) the result is the
\* payload {e: "er", m: message} with isError true, and the server goes on.
C12_ToolErrorsAreResults ==
  [][Handling =>
       LET req == Unwrap(request)
       IN (req.method = "tools/call" /\ IsSome(req.id)) =>
            /\ Len(frames') = 1
            /\ frames'[1].kind = "result"
            /\ frames'[1].id = Unwrap(req.id)
            /\ ~stopped'
            /\ RaisesError(req, state) => IsToolError(frames')
            /\ ~handle_tool_call(req.params, state, EnvOf(MaxDate, TRUE, TRUE), TRUE).ok
                 => IsToolError(frames')
            /\ frames'[1].result.isError
                 => ~handle_tool_call(req.params, state, EnvOf(MaxDate, TRUE, TRUE), TRUE).ok]_vars

\* A batch whose second step is an unknown action was sent to an existing
\* session: the answer is the error payload, and the server has not stopped.
C12_Witness_UnknownActionAnswered ==
  /\ pc = "loop"
  /\ IsCall(Unwrap(request), {"vartui.session.action"})
  /\ Unwrap(request).params.args.steps = Some(<<Step("n"), Step("bogus")>>)
  /\ Addressed(Unwrap(request)) \in DOMAIN state.sessions
  /\ IsToolError(frames)
  /\ ~stopped

\* The last call recorded was the named method.
Called(call) == IsSome(probe) /\ Unwrap(probe).call = call

\* C13: a submit of a range text that does not parse leaves the App as it
\* was but for the status: the mode stays Editing, the input, the range, the
\* days, the selections and the outstanding fetch are kept, and no fetch is
\* started.
C13_FailedRangeSubmitKeepsEdit ==
  [][(Called("submit_input")' /\ ~parse_date_range(app.input, now).ok) =>
       /\ app' = [app EXCEPT !.status = app'.status]
       /\ app'.input_mode = app.input_mode
       /\ app'.input = app.input
       /\ app'.date_range = app.date_range
       /\ app'.days = app.days
       /\ app'.day_state = app.day_state
       /\ app'.entry_state = app.entry_state
       /\ app'.rx = app.rx
       /\ app'.issued = app.issued
       /\ workers' = workers]_vars

C13_Witness_FailedSubmitWhileFetching ==
  /\ Called("submit_input")
  /\ app.input_mode = "Editing"
  /\ Len(app.input) > 0
  /\ ~parse_date_range(app.input, now).ok
  /\ IsSome(app.rx)
  /\ app.status = Status("estado: error", 0)

\* The date a text of the current range denotes.
DateOf(t) == Unwrap(parse_date(t))

\* C14: the date range a session holds always has its start on or before its
\* end: the initial range, and every range accepted from the range editor.
C14_RangeStartNotAfterEnd ==
  /\ IsSome(parse_date(app.date_range.start))
  /\ IsSome(parse_date(app.date_range.end))
  /\ DateOf(app.date_range.start) <= DateOf(app.date_range.end)

\* One Day without entries for each date of [s, e], the latest date first.
EmptyDayPerDate(s, e) ==
  IF s > e THEN <<>>
  ELSE [i \in 1..(e - s + 1) |-> [date |-> FormatDate(e + 1 - i), entries |-> <<>>]]

\* A step that applies the result of a day fetch.
AppliesFetch == app'.applied # app.applied

\* A step that is a submit of a range text that parses.
SubmitsRange == Called("submit_input")' /\ parse_date_range(app.input, now).ok

\* C15: a successful submit of a range start..end leaves one Day for each
\* date of [start, end], in strictly descending order of date and each with
\* no entries, and the day list stays so until a fetch result is applied.
C15_SubmittedRangeShowsEmptyDays ==
  [][/\ SubmitsRange =>
          LET r == parse_date_range(app.input, now).range
          IN /\ app'.date_range = r
             /\ app'.days = EmptyDayPerDate(DateOf(r.start), DateOf(r.end))
     /\ (~SubmitsRange /\ ~AppliesFetch) => app'.days = app.days]_vars

C15_Witness_EntriesReplacedByEmptyDays ==
  /\ Called("submit_input")
  /\ app.input_mode = "Normal"
  /\ app.applied = 1
  /\ app.issued = 2
  /\ IsSome(app.rx)
  /\ Len(app.days) = MaxDate
  /\ \A i \in 1..MaxDate : app.days[i] = [date |-> FormatDate(MaxDate + 1 - i), entries |-> <<>>]

\* The dates of the days of a day list, in the order of the list.
DatesOf(days) == [i \in 1..Len(days) |-> days[i].date]

\* C16: in every state the day list holds one Day for each date of the
\* current range, the latest date first, whether or not a fetch result has
\* been applied and whether that fetch succeeded or failed.
C16_DayListCoversRange ==
  DatesOf(app.days) = DatesOf(EmptyDayPerDate(DateOf(app.date_range.start), DateOf(app.date_range.end)))

\* The index `step` places after idx in a ring of n places.
Around(idx, n, step) == (idx + n + step) % n

\* The entries of the selected day, none when no day is selected.
EntriesOf(a) == IF IsSome(selected_day(a)) THEN Unwrap(selected_day(a)).entries ELSE <<>>

\* A call that moves the day selection by `step` did so around the day list.
MovedDay(step) ==
  IF Len(app.days) = 0 THEN app' = app
  ELSE (IsSome(app.day_state) /\ Unwrap(app.day_state) < Len(app.days)) =>
         app' = [app EXCEPT !.day_state = Some(Around(Unwrap(app.day_state), Len(app.days), step))]

\* A call that moves the entry selection by `step` did so around the entries
\* of the selected day.
MovedEntry(step) ==
  IF Len(EntriesOf(app)) = 0 THEN app' = app
  ELSE (IsSome(app.entry_state) /\ Unwrap(app.entry_state) < Len(EntriesOf(app))) =>
         app' = [app EXCEPT !.entry_state = Some(Around(Unwrap(app.entry_state), Len(EntriesOf(app)), step))]

\* C17: next and previous move the selection around the day list and around
\* the entry list: next of the last index is 0, previous of 0 is the last
\* index, a list of one element keeps index 0, and on an empty list nothing
\* changes.
C17_NavigationIsCircular ==
  [][/\ Called("next_day")' => MovedDay(1)
     /\ Called("previous_day")' => MovedDay(-1)
     /\ Called("next_entry")' => MovedEntry(1)
     /\ Called("previous_entry")' => MovedEntry(-1)]_vars

C17_Witness_NextDayWrapped ==
  /\ Called("next_day")
  /\ Len(app.days) = MaxDate
  /\ app.day_state = Some(0)
  /\ app.focus = "Days"

\* The entry selection is an index into the entries of the selected day.
EntrySelectionValid(a) ==
  /\ Len(EntriesOf(a)) >= 1
  /\ IsSome(a.entry_state)
  /\ Unwrap(a.entry_state) < Len(EntriesOf(a))

\* C18: focus_entries changes nothing when no day is selected or the selected
\* day has no entries, and whenever the focus is Entries the selected day has
\* at least one entry and the entry selection is a valid index into its
\* entries, also after day navigation, range changes and applied fetches.
C18_EntriesFocusHasEntry ==
  [][/\ (Called("focus_entries")' /\ Len(EntriesOf(app)) = 0) => app' = app
     /\ app'.focus = "Entries" => EntrySelectionValid(app')]_vars

\* C19: whenever the focus is Days there is no entry selection, whatever
\* keys and actions came before, next_entry and previous_entry called while
\* the focus is Days included.
C19_NoEntrySelectionInDaysFocus == app.focus = "Days" => app.entry_state = None

\* A form that submit_entry turns down for an empty field or for a project
\* id of 0.
Incomplete(form) ==
  \/ Len(form.date) = 0
  \/ Len(form.description) = 0
  \/ Len(form.minutes) = 0
  \/ ResolvedProjectId(form) = 0

EmptyFieldsError == Status("error: campos vacios o proyecto invalido", 0)

\* C20: submit_entry on a form with an empty date, description or minutes text
\* or with a resolved project id of 0 fails with the empty-fields error,
\* whatever the minutes text is worth, makes no remote create and starts no
\* fetch, and leaves the mode and every field of the form as they were: only
\* the status changes.
C20_IncompleteEntryIsTurnedDown ==
  [][(/\ Called("submit_entry")'
      /\ IsSome(app.entry_form)
      /\ Incomplete(Unwrap(app.entry_form))) =>
       /\ app' = [app EXCEPT !.status = EmptyFieldsError]
       /\ app'.entry_form = app.entry_form
       /\ app'.input_mode = app.input_mode
       /\ Unwrap(probe').created = <<>>
       /\ app'.issued = app.issued
       /\ workers' = workers]_vars

C20_Witness_TurnedDownBeforeMinutes ==
  /\ Called("submit_entry")
  /\ app.input_mode = "AddingEntry"
  /\ IsSome(app.entry_form)
  /\ Unwrap(app.entry_form).description = <<>>
  /\ Unwrap(app.entry_form).minutes = <<"x">>
  /\ ParseMinutes(Unwrap(app.entry_form).minutes) = 0
  /\ app.status = EmptyFieldsError

\* A minutes text with a character that is neither a digit nor a colon.
HasNonNumeric(t) == \E i \in 1..Len(t) : t[i] # ":" /\ ~(\E n \in 0..9 : Digit(n) = t[i])

\* A minutes text with more than one colon, or whose digits are all zero.
WorthNothing(t) ==
  \/ Cardinality({i \in 1..Len(t) : t[i] = ":"}) > 1
  \/ \A i \in 1..Len(t) : t[i] \in {":", "0"}

InvalidTimeError == Status("error: tiempo invalido", 0)

\* The minutes of 1:30 and of 30 written in the digits of the model.
AcceptsWellFormed(t, created) ==
  /\ t = <<"1", ":", "3", "0">> => (Len(created) = 1 /\ created[1].minutes = 90)
  /\ t = <<"3", "0">> => (Len(created) = 1 /\ created[1].minutes = 30)

\* C21: a minutes text is taken as hours:minutes or as a count of minutes;
\* a text with a component that is not a number, or that is worth zero, is
\* turned down with the invalid-time error, with no remote create and the
\* form left as it was, while 1:30 is submitted as 90 minutes.
C21_MinutesTextIsValidated ==
  [][(Called("submit_entry")' /\ IsSome(app.entry_form) /\ ~Incomplete(Unwrap(app.entry_form))) =>
       LET t == Unwrap(app.entry_form).minutes
       IN /\ (HasNonNumeric(t) \/ WorthNothing(t)) =>
               /\ app' = [app EXCEPT !.status = InvalidTimeError]
               /\ Unwrap(probe').created = <<>>
          /\ AcceptsWellFormed(t, Unwrap(probe').created)]_vars

\* A form that passes the validation of submit_entry.
Valid(form) == ~Incomplete(form) /\ ParseMinutes(form.minutes) # 0

\* The days workers a step started.
NewDaysWorkers == {w \in workers' \ workers : w.kind = "days"}

\* The step closed the form and started one day fetch.
CreatedAndRefreshed ==
  /\ app'.entry_form = None
  /\ app'.input_mode = "Normal"
  /\ app'.issued = app.issued + 1
  /\ IsSome(app'.rx)
  /\ Unwrap(app'.rx).fid = app'.issued
  /\ Cardinality(NewDaysWorkers) = 1
  /\ \A w \in NewDaysWorkers : w.fid = app'.issued /\ w.range = app.date_range

\* The step left everything but the status, which shows the remote error.
CreateFailed ==
  /\ app' = [app EXCEPT !.status = Status("error crear", 0)]
  /\ workers' = workers

Known(a, id) == \E i \in 1..Len(a.projects) : a.projects[i].id = id

RECURSIVE StepResult(_, _, _, _)
StepResult(a, steps, k, e) ==
  IF k = 0 THEN Done(a)
  ELSE apply_action(StepResult(a, steps, k - 1, e).app, normalize_action(steps[k][1]), steps[k][2], e)

\* Step k of the batch is the first to signal exit, no step before it failing.
ExitsAt(a, steps, k, e) ==
  /\ StepResult(a, steps, k, e).ok
  /\ StepResult(a, steps, k, e).exit
  /\ \A j \in 1..(k - 1) : StepResult(a, steps, j, e).ok /\ ~StepResult(a, steps, j, e).exit

\* Every step of the batch succeeds and none signals exit.
RunsThrough(a, steps, e) ==
  \A j \in 1..Len(steps) : StepResult(a, steps, j, e).ok /\ ~StepResult(a, steps, j, e).exit

\* What session.action answers and leaves for the batch steps on session sid.
BatchOutcome(sid, steps, e) ==
  LET a == state.sessions[sid]
      content == frames'[1].result.content
  IN /\ \A k \in 1..Len(steps) :
          ExitsAt(a, steps, k, e) =>
            /\ Len(frames') = 1
            /\ ~frames'[1].result.isError
            /\ content.x
            /\ content.s = None
            /\ content.n = k
            /\ sid \notin DOMAIN state'.sessions
            /\ ApplySteps(a, steps, e, 0).app = StepResult(a, steps, k, e).app
     /\ (Len(steps) > 0 /\ RunsThrough(a, steps, e)) =>
            /\ Len(frames') = 1
            /\ ~content.x
            /\ content.n = Len(steps)
            /\ sid \in DOMAIN state'.sessions
            /\ state'.sessions[sid] = Settled(StepResult(a, steps, Len(steps), e).app)

\* C24: the steps of a session.action batch are applied in the order of the
\* list; the first step that signals exit stops the batch, no later step is
\* applied, the session leaves the session map, and the response reports x
\* true, no snapshot and n the number of steps applied.
C24_BatchStopsAtExit ==
  [][Handling =>
       LET req == Unwrap(request)
       IN (/\ IsCall(req, {"vartui.session.action"})
           /\ WellFormed(req)
           /\ Addressed(req) \in DOMAIN state.sessions)
            => BatchOutcome(Addressed(req), Unwrap(req.params.args.steps), EnvOf(MaxDate, TRUE, TRUE))]_vars

C24_Witness_StoppedAtSecondStep ==
  /\ pc = "loop"
  /\ IsCall(Unwrap(request), {"vartui.session.action"})
  /\ Unwrap(request).params.args.steps = Some(ExitingBatch)
  /\ Len(frames) = 1
  /\ frames[1].result.content.x
  /\ frames[1].result.content.n = 2
  /\ frames[1].result.content.s = None
  /\ Addressed(Unwrap(request)) \in closed
  /\ Addressed(Unwrap(request)) \notin DOMAIN state.sessions

\* Neither receiver of the App holds a result that has been sent.
NothingReady(a) ==
  /\ IsSome(a.rx) => Unwrap(a.rx).state = "empty"
  /\ IsSome(a.rx_projects) => Unwrap(a.rx_projects).state = "empty"

\* C25: a poll of the background load made when no result is ready changes
\* nothing: the day list, the selections, the projects, the status, the
\* mode, the forms and the range stay, and a fetch that is outstanding is
\* still tracked; polling again and again is the same as not polling.
C25_PollWithoutResultChangesNothing ==
  [][(Called("check_background_load")' /\ NothingReady(app)) =>
       /\ app' = app
       /\ app'.rx = app.rx
       /\ workers' = workers]_vars

C25_Witness_PolledWhileFetching ==
  /\ Called("check_background_load")
  /\ app.applied = 1
  /\ app.issued = 2
  /\ IsSome(app.rx)
  /\ Unwrap(app.rx).state = "empty"
  /\ app.rx_projects = None
  /\ app.status = Status("actualizando...", 0)

\* The response to the session.create being handled has been written.
CreateAnswered ==
  /\ pc = "read"
  /\ Len(frames) = 1
  /\ frames[1].kind = "result"
  /\ ~frames[1].result.isError
  /\ frames[1].result.content.e = "sc"
  /\ frames[1].result.content.sid \in DOMAIN state.sessions

\* C26: session.create always returns: its wait for the two first fetches
\* ends within its timeout even when no worker ever sends, and then the
\* snapshot of the state there is is answered and the new session is in the
\* session map.
C26_CreateAlwaysReturns == (pc = "wait") ~> CreateAnswered

C26_Witness_ReturnedWithoutResults ==
  /\ CreateAnswered
  /\ waited = WaitBudget
  /\ LET a == state.sessions[frames[1].result.content.sid]
     IN /\ IsSome(a.rx) /\ Unwrap(a.rx).state = "empty"
        /\ IsSome(a.rx_projects) /\ Unwrap(a.rx_projects).state = "empty"
        /\ a.status = Status("cargando...", 0)

\* The number a limit argument asks for, when it is a positive number or the
\* text of one.
Asked(raw) ==
  IF ~IsSome(raw) THEN None
  ELSE IF Unwrap(raw).kind = "number" THEN Some(Unwrap(raw).n)
  ELSE IF Unwrap(raw).kind = "string" THEN ParseUsize(Trim(Unwrap(raw).text))
  ELSE None

\* The day objects ds are the first days of the list, no more than D of
\* them, each with no more than E of its first entries and its true count.
ListsFirst(ds, days, D, E) ==
  /\ Len(ds) <= D
  /\ Len(ds) = Min(Min(D, MaxDaysCap), Len(days))
  /\ \A i \in 1..Len(ds) :
       /\ ds[i].d = days[i].date
       /\ ds[i].ec = Len(days[i].entries)
       /\ Len(ds[i].e) <= E
       /\ Len(ds[i].e) = Min(Min(E, MaxEntriesCap), Len(days[i].entries))
       /\ \A j \in 1..Len(ds[i].e) :
            /\ ds[i].e[j].p = days[i].entries[j].project
            /\ ds[i].e[j].h = days[i].entries[j].hours

ConfigObject(s, view) ==
  CASE view = "Tiny" -> None
    [] view = "Normal" -> s.cf
    [] OTHER -> s.normal.cf

\* The last k characters of a text, the whole of a shorter one.
LastChars(t, k) == SubSeq(t, Len(t) - Min(k, Len(t)) + 1, Len(t))

\* The token field of a snapshot hides the token: a prefix of stars, then a
\* suffix of the token that is shorter than the token, so that the token
\* is not to be read in the field.
Masked(field, token) ==
  /\ Len(field) >= 3
  /\ SubSeq(field, 1, 3) = <<"*", "*", "*">>
  /\ Len(field) - 3 < Len(token)
  /\ SubSeq(token, Len(token) - (Len(field) - 3) + 1, Len(token)) = SubSeq(field, 4, Len(field))
  /\ ~Contains(field, token)

\* C28: no snapshot of any view holds the token of the configuration form in
\* full: for a token that is not empty, whatever its length, the token field
\* is a masking prefix and a suffix strictly shorter than the token, and
\* two tokens with the same suffix give the same field.
C28_TokenNeverShownInFull ==
  (Called("session.snapshot") /\ IsSome(app.config_form) /\ Len(Unwrap(app.config_form).token) > 0)
  => LET view == Unwrap(probe).arg
         s == Unwrap(Unwrap(probe).s)
         token == Unwrap(app.config_form).token
     IN IsSome(ConfigObject(s, view)) =>
          /\ Masked(Unwrap(ConfigObject(s, view)).t, token)
          /\ \A n \in 1..MaxToken : \A other \in [1..n -> SecretChars] :
               LastChars(other, 4) = LastChars(token, 4) =>
                 mask_secret(other) = Unwrap(ConfigObject(s, view)).t

\* The credentials the rule gives: the configured token when it is not
\* empty, else the one of the environment, else none; the configured base
\* URL, else the one of the environment, else the default.
Preferred(config, envv) ==
  [token |-> IF Len(config.var_token) > 0 THEN config.var_token
             ELSE IF IsSome(envv.token) THEN Trim(StripQuotes(Unwrap(envv.token)))
             ELSE <<>>,
   base_url |-> StripSlash(IF Len(config.base_url) > 0 /\ config.base_url # API_BASE THEN config.base_url
                           ELSE IF IsSome(envv.base_url) /\ Len(Trim(StripQuotes(Unwrap(envv.base_url)))) > 0
                                THEN Trim(StripQuotes(Unwrap(envv.base_url)))
                                ELSE API_BASE)]

\* C29: the submit of an entry resolves the token and the base URL of its
\* remote create by the rule of the background fetches: the configured value
\* before the one of the environment, that one before the default; for every
\* configuration and environment both use the same credentials.
C29_SubmitUsesFetchCredentials ==
  Called("submit_entry") =>
    /\ Unwrap(Unwrap(probe).with) = Preferred(app.config, Unwrap(probe).arg)
    /\ Unwrap(Unwrap(probe).with) = SpawnCredentials(app.config, Unwrap(probe).arg)

\* The background fetches do follow the rule.
FetchFollowsRule ==
  Called("spawn_load") => Unwrap(Unwrap(probe).with) = Preferred(app.config, Unwrap(probe).arg)

\* The project at the 0-based index i has the search text in its name,
\* whatever the case of either; every project has the empty text.
Matches(projects, i, search) == Contains(ToLower(projects[i + 1].name), ToLower(search))

\* idx lists, in the order of the list, the first projects that match, up
\* to the cap, and nothing else.
ListsFirstMatches(idx, projects, search) ==
  /\ \A k \in 1..Len(idx) : idx[k] \in 0..(Len(projects) - 1) /\ Matches(projects, idx[k], search)
  /\ \A k \in 1..(Len(idx) - 1) : idx[k] < idx[k + 1]
  /\ Len(idx) = Min(FilterCap, Cardinality({i \in 0..(Len(projects) - 1) : Matches(projects, i, search)}))
  /\ \A i \in 0..(Len(projects) - 1) :
       (Matches(projects, i, search) /\ \A k \in 1..Len(idx) : idx[k] # i)
       => Len(idx) = FilterCap /\ i > idx[Len(idx)]

\* A call that runs the filter of the form.
Filters(call) == call \in {"open_add_entry", "form_input_push", "form_input_backspace"}

\* The form lists the first matches of its search.
Filtered(a) ==
  LET form == Unwrap(a.entry_form)
  IN /\ ListsFirstMatches(form.filtered_indices, a.projects, form.project_search)
     /\ Len(form.project_search) = 0 =>
          form.filtered_indices = [k \in 1..Min(FilterCap, Len(a.projects)) |-> k - 1]

\* C30: the filter of an open entry form returns, for an empty search, the
\* first min(20, n) projects in stored order and, for a search that is not
\* empty, the first up to 20 projects, in the order of the list, whose name
\* contains the search whatever the case; a project that does not match is
\* never listed.
C30_FilterListsFirstMatches ==
  [][(IsSome(probe') /\ Filters(Unwrap(probe').call)) => Filtered(app')]_vars

C30_Witness_CappedMixedCaseSearch ==
  /\ Called("form_input_push")
  /\ Unwrap(app.entry_form).project_search = <<"A">>
  /\ Len(app.projects) > FilterCap
  /\ Len(Unwrap(app.entry_form).filtered_indices) = FilterCap
  /\ Unwrap(app.entry_form).filtered_indices[1] = 1
  /\ Unwrap(app.entry_form).filtered_indices[FilterCap] > FilterCap
  /\ \E i \in 1..Len(app.projects) :
       /\ ~Contains(ToLower(app.projects[i].name), <<"a">>)
       /\ i - 1 < Unwrap(app.entry_form).filtered_indices[FilterCap]

\* C31: the parse of a range goes round through the label: for every range
\* that parse_date_range returned for AUTO, AUTO-WEEK or an explicit
\* start..end text, the parse of its label succeeds and gives a range with
\* the same start and the same end.
C31_RangeRoundTripsThroughLabel ==
  Called("label") =>
    /\ Unwrap(Unwrap(probe).r).ok
    /\ Unwrap(Unwrap(probe).r).range = Unwrap(Unwrap(probe).from)

C31_Witness_SpacedRangeRelabelled ==
  /\ Called("label")
  /\ Unwrap(probe).arg = <<"2", ".", ".", "1">>
  /\ Unwrap(Unwrap(probe).from) = [start |-> <<"2">>, end |-> <<"1">>]
  /\ Unwrap(Unwrap(probe).r).ok

\* The receiver holds a result that was sent and not polled yet.
Ready(rx) == IsSome(rx) /\ Unwrap(rx).state = "ready"

\* The day selection once the day list is replaced by days.
Reclamped(day_state, days) ==
  IF Len(days) = 0 THEN None
  ELSE IF IsSome(day_state) /\ Unwrap(day_state) < Len(days) THEN day_state
  ELSE IF IsSome(day_state) THEN Some(Len(days) - 1)
  ELSE Some(0)

\* What a poll does with the day-range result b holds, if it holds one.
PollAppliesDays(b, a) ==
  IF Ready(b.rx)
  THEN /\ Unwrap(b.rx).fid > b.applied
       /\ a.days = Unwrap(b.rx).days
       /\ a.day_state = Reclamped(b.day_state, Unwrap(b.rx).days)
       /\ a.applied = Unwrap(b.rx).fid
       /\ a.rx = None
       /\ ~Ready(b.rx_projects) => a.status = Unwrap(b.rx).status
  ELSE /\ a.days = b.days
       /\ a.day_state = b.day_state
       /\ a.applied = b.applied

\* What a poll does with the projects result b holds, if it holds one.
PollAppliesProjects(b, a) ==
  IF Ready(b.rx_projects)
  THEN /\ a.rx_projects = None
       /\ IF Unwrap(b.rx_projects).ok
          THEN a.projects = Unwrap(b.rx_projects).projects
          ELSE a.projects = b.projects /\ a.status = Status("error proyectos", 0)
  ELSE a.projects = b.projects

\* The step leaves the lists, the selection and the status of the App alone.
KeepsFetched(b, a) ==
  /\ a.applied = b.applied
  /\ a.projects = b.projects
  /\ Called("send")' => (a.days = b.days /\ a.day_state = b.day_state /\ a.status = b.status)

\* C32: a fetch result is applied at most once and only by a foreground
\* poll: a polled day-range result replaces the whole day list, with the day
\* selection clamped again, and the status; a polled projects result that
\* succeeded replaces the whole project list; one that failed sets an error
\* status and leaves the project list; a result that was applied is no
\* longer outstanding.  When one poll applies both results the status is that
\* of the projects result, which is applied last.
C32_ResultsAppliedOnceByPoll ==
  [][IF Called("check_background_load")'
     THEN PollAppliesDays(app, app') /\ PollAppliesProjects(app, app')
     ELSE KeepsFetched(app, app')]_vars

C32_Witness_FailedProjectsPolled ==
  /\ Called("check_background_load")
  /\ app.status = Status("error proyectos", 0)
  /\ app.projects = <<>>
  /\ app.rx_projects = None
  /\ app.applied = 1
  /\ app.rx = None
  /\ Len(app.days) > 0

\* The day fetch f is the one the App is waiting for.
Outstanding(f) == IsSome(app.rx) /\ Unwrap(app.rx).fid = f

\* A poll has just shown the error of a day fetch.
FetchErrorShown == Called("check_background_load") /\ app.status = Status("fetch error", 0)

\* C33: with workers that all end and a foreground that keeps polling, every
\* fetch that was issued and is not superseded is consumed by a poll in the
\* end, so that no fetch stays outstanding for ever; a fetch that ends in an
\* error comes through the same channel as a status, does not stop the
\* foreground loop and leaves a session that can be refreshed and browsed.
C33_FetchesAreConsumed ==
  /\ \A f \in 1..(MaxFetches + 1) : Outstanding(f) ~> (~IsSome(app.rx) \/ Unwrap(app.rx).fid > f)
  /\ IsSome(app.rx_projects) ~> ~IsSome(app.rx_projects)
  /\ [](FetchErrorShown =>
          /\ ~exited
          /\ app.rx = None
          /\ app.applied = app.issued
          /\ IsSome(refresh(app).rx)
          /\ Unwrap(refresh(app).rx).fid = app.issued + 1)

C33_Witness_ErrorOfSecondFetchShown ==
  /\ FetchErrorShown
  /\ app.issued = 2
  /\ app.applied = 2
  /\ 1 \in app.lost
  /\ app.rx = None

\* The configuration a save stores for the form: each text trimmed, a blank
\* default range as none.
Stored(form) ==
  [var_token |-> Trim(form.token), base_url |-> Trim(form.base_url),
   default_date_range |-> IF Len(Trim(form.default_range)) = 0 THEN None ELSE Some(Trim(form.default_range)),
   theme |-> form.theme]

\* The step closed the form and issued one refresh.
SavedAndRefreshed ==
  /\ app'.config_form = None
  /\ app'.input_mode = "Normal"
  /\ app'.issued = app.issued + 1
  /\ IsSome(app'.rx)
  /\ Unwrap(app'.rx).fid = app'.issued
  /\ Cardinality(NewDaysWorkers) = 1
  /\ \A w \in NewDaysWorkers : w.fid = app'.issued /\ w.range = app'.date_range

\* The live range and the day skeleton follow the stored default range when
\* its text parses, and stay otherwise.
RangeFollows(stored) ==
  IF IsSome(stored.default_date_range) /\ parse_date_range(Unwrap(stored.default_date_range), now).ok
  THEN LET r == parse_date_range(Unwrap(stored.default_date_range), now).range
       IN /\ app'.date_range = r
          /\ app'.days = EmptyDayPerDate(DateOf(r.start), DateOf(r.end))
  ELSE /\ app'.date_range = app.date_range
       /\ app'.days = app.days

\* C34: save_config_form stores the trimmed values of the form without
\* validating them; when the persistence succeeds it replaces the config of
\* the session, closes the form, goes back to Normal and issues a refresh,
\* and the live range and the day skeleton change only if the stored default
\* range parses; when the persistence fails the form stays open and the
\* config, the range, the day list and the outstanding fetch are unchanged.
C34_SaveStoresUnvalidated ==
  [][(Called("save_config_form")' /\ IsSome(app.config_form)) =>
       IF Unwrap(probe').arg
       THEN /\ app'.config = Stored(Unwrap(app.config_form))
            /\ SavedAndRefreshed
            /\ RangeFollows(Stored(Unwrap(app.config_form)))
       ELSE /\ app' = [app EXCEPT !.status = Status("Error guardando", 0)]
            /\ app'.input_mode = "Configuring"
            /\ workers' = workers]_vars

C34_Witness_UnparsableRangeStored ==
  /\ Called("save_config_form")
  /\ Unwrap(probe).arg
  /\ app.config.default_date_range = Some(<<"x">>)
  /\ app.config.var_token = <<"t">>
  /\ app.date_range = initial_date_range(MaxDate)
  /\ app.config_form = None
  /\ app.issued = 2
  /\ IsSome(app.rx)

\* The calls that type into, move within, submit or close the entry form.
FormCalls ==
  {"form_input_push", "form_input_backspace", "form_enter", "form_next_field", "submit_entry",
   "close_add_entry"}

\* The step left the day list with its entries and the selection alone.
KeepsEntries ==
  /\ app'.days = app.days
  /\ app'.day_state = app.day_state
  /\ app'.entry_state = app.entry_state

\* The form of the next state is seeded with the date of the selected day
\* and the project name, note and duration of the selected entry.
SeededFrom(day, entry) ==
  /\ app'.input_mode = "AddingEntry"
  /\ IsSome(app'.entry_form)
  /\ Unwrap(app'.entry_form).date = day.date
  /\ Unwrap(app'.entry_form).project_search = entry.project
  /\ Unwrap(app'.entry_form).description = entry.note
  /\ Unwrap(app'.entry_form).minutes = FormatHHMM(EntryMinutes(entry))

\* open_duplicate_entry and the form calls after it never change the day
\* list, the selection or a fetched entry.
DuplicateKeepsEntries ==
  [][((Called("open_duplicate_entry")' \/ (IsSome(probe') /\ Unwrap(probe').call \in FormCalls))
        => KeepsEntries)]_vars

\* C35: open_duplicate_entry acts only when the focus is on the entries and
\* an entry is selected, and is otherwise a no-op; it opens the entry form
\* seeded with the date of the selected day and the project name, note and
\* duration of the selected entry; neither it nor anything typed or
\* submitted in the form afterwards changes the day list, the selected entry
\* or a fetched entry.
C35_DuplicateSeedsFromEntry ==
  [][/\ Called("open_duplicate_entry")' =>
          IF app.focus = "Entries" /\ IsSome(selected_entry(app))
          THEN /\ SeededFrom(Unwrap(selected_day(app)), Unwrap(selected_entry(app)))
               /\ KeepsEntries
          ELSE app' = app
     /\ (IsSome(probe') /\ Unwrap(probe').call \in FormCalls) => KeepsEntries]_vars

\* The key names parse_key_sequence knows besides "text" and "char:<x>".
TuiKeyNames ==
  {"up", "down", "left", "right", "enter", "esc", "tab", "backtab", "backspace", "space",
   "ctrl+c", "ctrl+r", "ctrl+u", "j", "k", "h", "l", "q", "r", "f", "n", "d", "c"}

\* The key name is none that parse_key_sequence supports.
Unsupported(key) ==
  /\ key # <<"text">>
  /\ ~(Len(key) > 0 /\ key[1] = "char:")
  /\ ~(Len(key) = 1 /\ key[1] \in TuiKeyNames)

\* The sequence has one unmodified character key per character of the text,
\* in the order of the text.
SpellsOut(seq, text) ==
  /\ Len(seq) = Len(text)
  /\ \A i \in 1..Len(text) : seq[i] = [code |-> "Char", ch |-> text[i], mods |-> {}]

\* The last step was a session.key call or a send_key step.
KeyCalled == IsSome(probe) /\ Unwrap(probe).call \in {"session.key", "send_key"}

\* C36: parse_key_sequence yields for the key "text" with a text that is not
\* empty one unmodified character key per character of the text, in order;
\* for "char:<x>" exactly one key, the character x; for an unsupported key
\* name an error.  A session.key call or a send_key step whose key is
\* rejected answers an error, replays no key and leaves the state of the
\* session, and of the server, as it was.
C36_RejectedKeyReplaysNothing ==
  [][KeyCalled' =>
       LET key == Unwrap(probe').key
           text == Unwrap(probe').text
           parsed == parse_key_sequence(key, text)
       IN /\ (key = <<"text">> /\ IsSome(text) /\ Len(Unwrap(text)) > 0)
               => parsed.ok /\ SpellsOut(parsed.seq, Unwrap(text))
          /\ (Len(key) = 2 /\ key[1] = "char:" /\ key[2] # "char:")
               => parsed.ok /\ parsed.seq = <<[code |-> "Char", ch |-> key[2], mods |-> {}]>>
          /\ Unsupported(key) => ~parsed.ok
          /\ ~parsed.ok => ~Unwrap(probe').ok /\ state' = state]_vars

C36_Witness_UnknownKeyInEditor ==
  /\ KeyCalled
  /\ Unwrap(probe).call = "session.key"
  /\ Unwrap(probe).key = <<"zz">>
  /\ ~Unwrap(probe).ok
  /\ 1 \in DOMAIN state.sessions
  /\ state.sessions[1].input_mode = "Editing"
  /\ Len(state.sessions[1].input) > 0

\* C37: every remote create the session issues carries a project id greater
\* than 0 and a count of minutes greater than 0, whatever texts the form
\* held.
C37_CreateHasPositiveIdAndMinutes ==
  IsSome(probe) =>
    \A i \in 1..Len(Unwrap(probe).created) :
      Unwrap(probe).created[i].project_id > 0 /\ Unwrap(probe).created[i].minutes > 0

\* Every remote create carries a project id and a count of minutes other
\* than 0.
CreateHasNonZeroIdAndMinutes ==
  IsSome(probe) =>
    \A i \in 1..Len(Unwrap(probe).created) :
      Unwrap(probe).created[i].project_id # 0 /\ Unwrap(probe).created[i].minutes # 0

\* What one step of a batch leaves of the App a.
StepLeaves(a, step, e) == apply_action(a, normalize_action(step[1]), step[2], e)

\* The App after the first j steps of the batch, each applied to what the
\* steps before it left.
RECURSIVE AppAfter(_, _, _, _)
AppAfter(a, steps, j, e) ==
  IF j = 0 THEN a ELSE StepLeaves(AppAfter(a, steps, j - 1, e), steps[j], e).app

\* Step j of the batch fails when it is run after the steps before it.
FailsAt(a, steps, j, e) == ~StepLeaves(AppAfter(a, steps, j - 1, e), steps[j], e).ok

\* The first step of the batch that fails, 0 when none does.
FirstFailure(a, steps, e) ==
  IF \E j \in 1..Len(steps) : FailsAt(a, steps, j, e)
  THEN CHOOSE j \in 1..Len(steps) :
         FailsAt(a, steps, j, e) /\ \A i \in 1..(j - 1) : ~FailsAt(a, steps, i, e)
  ELSE 0

\* The batch holds an item that is no object or that has no action name.
Malformed(steps) == \E i \in 1..Len(steps) : Len(steps[i]) # 2

\* The last step was a session.action call.
BatchCalled == IsSome(probe) /\ Unwrap(probe).call = "session.action"

\* What a batch whose step k fails leaves of the session sid: what the steps
\* before k made of it, then what step k did before it failed, and nothing
\* of the steps after k.
StoppedAt(sid, steps, k, e) ==
  state' = [state EXCEPT !.sessions[sid] = Settled(AppAfter(state.sessions[sid], steps, k, e))]

\* C38: a session.action batch is not atomic.  When its step k fails, what
\* the steps 1..k-1 did stays applied to the session, the steps after k are
\* not run, and the call returns a tool error without a snapshot.  A batch
\* with an item that is no object, or that has no action name, is rejected
\* before any step is applied: the state of the server stays as it was.
C38_FailedBatchKeepsEarlierSteps ==
  [][BatchCalled' =>
       LET sid == Unwrap(probe').sid
           steps == Unwrap(probe').steps
           e == EnvOf(MaxDate, TRUE, TRUE)
       IN IF Malformed(steps)
          THEN ~Unwrap(probe').ok /\ Unwrap(probe').content = NoContent /\ state' = state
          ELSE (sid \in DOMAIN state.sessions /\ FirstFailure(state.sessions[sid], steps, e) > 0)
                 => /\ ~Unwrap(probe').ok
                    /\ Unwrap(probe').content = NoContent
                    /\ StoppedAt(sid, steps, FirstFailure(state.sessions[sid], steps, e), e)]_vars

C38_Witness_FormLeftOpenByFailedBatch ==
  /\ BatchCalled
  /\ Unwrap(probe).steps = <<Step("oa"), Step("bogus"), Step("ca")>>
  /\ ~Unwrap(probe).ok
  /\ 1 \in DOMAIN state.sessions
  /\ state.sessions[1].input_mode = "AddingEntry"
  /\ IsSome(state.sessions[1].entry_form)

\* The request the server holds is a tools/call without an id.
UnansweredToolCall ==
  /\ IsSome(request)
  /\ Unwrap(request).method = "tools/call"
  /\ ~IsSome(Unwrap(request).id)

\* C39: a tools/call request without an id is not executed: handling it
\* writes no response, and creates, changes and closes no session, so the
\* state of the server after it is the state before it.
C39_UnansweredToolCallNotRun ==
  [][(pc = "handle" /\ pc' = "loop" /\ UnansweredToolCall) =>
       /\ state' = state
       /\ closed' = closed
       /\ frames' = <<>>
       /\ ~stopped']_vars

C39_Witness_CloseWithoutIdKeepsSession ==
  /\ pc = "loop"
  /\ UnansweredToolCall
  /\ Unwrap(request).params.name = "vartui.session.close"
  /\ Unwrap(request).params.args.sid = Some(1)
  /\ 1 \in DOMAIN state.sessions
  /\ frames = <<>>

\* The ids of the sessions the step created.
NewSessions == DOMAIN state'.sessions \ DOMAIN state.sessions

\* C40: session ids are never reused within one run of the server.  The id
\* of a session that is created, which is the id session.create returns, is
\* different from the id of every session that is open and of every session
\* that was closed, so the id of a closed session never names a session
\* again.
C40_SessionIdsNeverReused ==
  /\ [](closed \cap DOMAIN state.sessions = {})
  /\ [][\A s \in NewSessions :
          /\ \A old \in DOMAIN state.sessions \cup closed : s > old
          /\ Len(frames') = 1
          /\ ~frames'[1].result.isError
          /\ frames'[1].result.content.e = "sc"
          /\ frames'[1].result.content.sid = s]_vars

C40_Witness_CreatedAfterClose ==
  /\ pc = "loop"
  /\ IsSome(request)
  /\ Unwrap(request).method = "tools/call"
  /\ Unwrap(request).params.name = "vartui.session.create"
  /\ closed = {1}
  /\ DOMAIN state.sessions = {2}
  /\ Len(frames) = 1
  /\ frames[1].result.content.sid = 2

====
